---------------------------- MODULE Spec2Model ----------------------------
(***************************************************************************)
(* Model of Harklemath (src/src/Harklemath.c, src/hdr/Harklemath.h): the   *)
(* tolerance-aware comparators, the rounding adapter and the ellipse       *)
(* sampler.                                                                *)
(*                                                                         *)
(* Arithmetic.  A C double is modelled as a floating-point number          *)
(* <<m, e>> = m * 10^e whose significand holds at most MantDigits decimal  *)
(* digits; every operation computes the exact result and rounds it to the  *)
(* nearest representable value, ties to even, as IEEE-754 does in the      *)
(* default mode FE_TONEAREST.  The exponent is unbounded (no overflow to   *)
(* infinity, no subnormals) and the sign of zero is not kept.  NaN is the  *)
(* one special value.  All arithmetic outside round_a_dble runs while the  *)
(* rounding mode is FE_TONEAREST (the start-up mode, which only            *)
(* round_a_dble changes); inside round_a_dble only round(), ceil() and     *)
(* floor() are evaluated, which do not depend on the rounding mode.        *)
(***************************************************************************)
EXTENDS Integers, Sequences, FiniteSets, TLC

\* Number of decimal digits in the significand of the modelled double.
MantDigits == 3

---------------------------------------------------------------------------
(* Integer helpers *)

RECURSIVE Pow10(_)
Pow10(n) == IF n <= 0 THEN 1 ELSE 10 * Pow10(n - 1)

IAbs(n) == IF n < 0 THEN 0 - n ELSE n

ISgn(n) == IF n < 0 THEN 0 - 1 ELSE IF n = 0 THEN 0 ELSE 1

IMin(a, b) == IF a < b THEN a ELSE b

IMax(a, b) == IF a < b THEN b ELSE a

RECURSIVE NumDigits(_)
NumDigits(n) == IF n < 10 THEN 1 ELSE 1 + NumDigits(n \div 10)

\* Largest r in lo..hi-1 with r*r <= n (binary search; lo*lo <= n < hi*hi).
RECURSIVE ISqrtBS(_, _, _)
ISqrtBS(n, lo, hi) ==
    IF hi - lo <= 1 THEN lo
    ELSE LET mid == (lo + hi) \div 2
         IN  IF mid * mid <= n THEN ISqrtBS(n, mid, hi) ELSE ISqrtBS(n, lo, mid)

---------------------------------------------------------------------------
(* The double type *)

Zero == <<0, 0>>

NaN == <<0, 1>>

IsNaN(x) == x = NaN

\* Canonical form: no trailing zero digit in the significand.
RECURSIVE Strip(_, _)
Strip(m, e) ==
    IF m = 0 THEN Zero
    ELSE IF m % 10 = 0 THEN Strip(m \div 10, e + 1)
    ELSE <<m, e>>

\* n >= 0 with its k low digits dropped, rounded to nearest, ties to even;
\* sticky says that the exact value is a little above n.
RoundHalfEven(n, k, sticky) ==
    IF k <= 0 THEN n
    ELSE IF k > NumDigits(n) THEN 0
    ELSE LET q    == n \div Pow10(k)
             r    == n % Pow10(k)
             half == 5 * Pow10(k - 1)
         IN  IF r > half \/ (r = half /\ (sticky \/ q % 2 = 1)) THEN q + 1 ELSE q

\* The double nearest to sgn * n * 10^e (n >= 0).
MkDouble(sgn, n, e, sticky) ==
    LET k == IMax(0, NumDigits(n) - MantDigits)
    IN  Strip(sgn * RoundHalfEven(n, k, sticky), e + k)

Dbl(m, e) == MkDouble(ISgn(m), IAbs(m), e, FALSE)

\* (double) of an int
FromInt(n) == Dbl(n, 0)

\* Decimal position of the most significant digit of a non-zero double.
Msd(x) == x[2] + NumDigits(IAbs(x[1])) - 1

FNeg(x) == IF IsNaN(x) THEN NaN ELSE Strip(0 - x[1], x[2])

\* fabs()
FAbs(x) == IF IsNaN(x) THEN NaN ELSE Strip(IAbs(x[1]), x[2])

\* x + y
FAdd(x, y) ==
    IF IsNaN(x) \/ IsNaN(y) THEN NaN
    ELSE IF x[1] = 0 THEN y
    ELSE IF y[1] = 0 THEN x
    ELSE IF Msd(x) - Msd(y) > MantDigits + 1 THEN x
    ELSE IF Msd(y) - Msd(x) > MantDigits + 1 THEN y
    ELSE LET emin == IMin(x[2], y[2])
             s    == x[1] * Pow10(x[2] - emin) + y[1] * Pow10(y[2] - emin)
         IN  MkDouble(ISgn(s), IAbs(s), emin, FALSE)

\* x - y
FSub(x, y) == FAdd(x, FNeg(y))

\* x * y
FMul(x, y) ==
    IF IsNaN(x) \/ IsNaN(y) THEN NaN
    ELSE LET p == x[1] * y[1]
         IN  MkDouble(ISgn(p), IAbs(p), x[2] + y[2], FALSE)

\* x / y (a zero divisor gives NaN: infinities are not modelled)
FDiv(x, y) ==
    IF IsNaN(x) \/ IsNaN(y) \/ y[1] = 0 THEN NaN
    ELSE IF x[1] = 0 THEN Zero
    ELSE LET s   == 2 * MantDigits + 1 - NumDigits(IAbs(x[1]))
             num == IAbs(x[1]) * Pow10(s)
             q   == num \div IAbs(y[1])
             r   == num % IAbs(y[1])
         IN  MkDouble(ISgn(x[1]) * ISgn(y[1]), q, x[2] - s - y[2], r # 0)

\* sqrt()
FSqrt(x) ==
    IF IsNaN(x) \/ x[1] < 0 THEN NaN
    ELSE IF x[1] = 0 THEN Zero
    ELSE LET d  == NumDigits(x[1])
             s0 == 2 * MantDigits - d
             s  == IF (x[2] - s0) % 2 = 0 THEN s0 ELSE s0 - 1
             n  == IF s >= 0 THEN x[1] * Pow10(s) ELSE x[1] \div Pow10(0 - s)
             r  == ISqrtBS(n, 0, Pow10(MantDigits))
             q  == IF n > r * r + r THEN r + 1 ELSE r
         IN  Strip(q, (x[2] - s) \div 2)

\* -1, 0, 1 as x <, =, > y (neither is NaN)
FCmp(x, y) ==
    IF x = y THEN 0
    ELSE IF ISgn(x[1]) # ISgn(y[1]) THEN (IF ISgn(x[1]) < ISgn(y[1]) THEN 0 - 1 ELSE 1)
    ELSE IF Msd(x) # Msd(y)
         THEN (IF (Msd(x) < Msd(y)) = (x[1] > 0) THEN 0 - 1 ELSE 1)
    ELSE LET emin == IMin(x[2], y[2])
             a    == x[1] * Pow10(x[2] - emin)
             b    == y[1] * Pow10(y[2] - emin)
         IN  IF a < b THEN 0 - 1 ELSE 1

\* PLACEHOLDERS FOR DOUBLE COMPARISON FUNCTIONS; any comparison with NaN is false
DBL_GRTR(x, y) == ~IsNaN(x) /\ ~IsNaN(y) /\ FCmp(x, y) = 1

DBL_GRTR_EQ(x, y) == ~IsNaN(x) /\ ~IsNaN(y) /\ FCmp(x, y) >= 0

DBL_EQUAL(x, y) == ~IsNaN(x) /\ ~IsNaN(y) /\ FCmp(x, y) = 0

DBL_LESS(x, y) == ~IsNaN(x) /\ ~IsNaN(y) /\ FCmp(x, y) = 0 - 1

DBL_LESS_EQ(x, y) == ~IsNaN(x) /\ ~IsNaN(y) /\ FCmp(x, y) <= 0

\* Integer part of a double, toward zero: the C conversion (int)x.
ToInt(x) ==
    IF x[2] >= 0 THEN x[1] * Pow10(x[2])
    ELSE IF 0 - x[2] >= NumDigits(IAbs(x[1])) THEN 0
    ELSE ISgn(x[1]) * (IAbs(x[1]) \div Pow10(0 - x[2]))

IsWhole(x) == ~IsNaN(x) /\ x[2] >= 0

\* floor()
FFloor(x) ==
    IF IsNaN(x) \/ IsWhole(x) THEN x
    ELSE FromInt(IF x[1] < 0 THEN ToInt(x) - 1 ELSE ToInt(x))

\* ceil()
FCeil(x) ==
    IF IsNaN(x) \/ IsWhole(x) THEN x
    ELSE FromInt(IF x[1] > 0 THEN ToInt(x) + 1 ELSE ToInt(x))

\* round(): nearest whole number, halves away from zero, in every rounding mode
FRound(x) ==
    IF IsNaN(x) \/ IsWhole(x) THEN x
    ELSE LET t    == ToInt(x)
             frac == FAbs(FSub(x, FromInt(t)))
         IN  IF FCmp(frac, <<5, 0 - 1>>) >= 0 THEN FromInt(t + ISgn(x[1])) ELSE FromInt(t)

---------------------------------------------------------------------------
(* Program constants *)

DBL_PRECISION == 15

HARKLEMATH_MAX_TRIES == 3

INT_MAX == 2147483647

INT_MIN == 0 - INT_MAX - 1

HM_RND == "FE_TONEAREST"

HM_UP == "FE_UPWARD"

HM_DWN == "FE_DOWNWARD"

HM_IN == "FE_TOWARDZERO"

HM_UP_LEFT == 1

HM_UP_RIGHT == 2

HM_LOW_LEFT == 3

HM_LOW_RIGHT == 4

\* The rounding directions of <fenv.h>
RoundingModes == {HM_RND, HM_UP, HM_DWN, HM_IN}

One == <<1, 0>>

Ten == <<1, 1>>

Tenth == <<1, 0 - 1>>

---------------------------------------------------------------------------
(* Precision engine.  The statics of calc_precision and calc_max_precision *)
(* are carried in a record st = [maxPrec, retVal, runs]: maxPrec is the    *)
(* static of calc_precision, retVal the static of calc_max_precision, and  *)
(* runs counts how often the two accuracy loops were executed.  A local    *)
(* that is read several times is bound as the element of a singleton set,  *)
(* so that it is a value computed once.                                    *)

RunsCap == 3

\* while (num1 + num2 != num1) { ++counter; num2 = num2 / 10.0; }
RECURSIVE AccuracyLoop(_, _, _)
AccuracyLoop(num1, num2, counter) ==
    IF FAdd(num1, num2) # num1
    THEN CHOOSE r \in {AccuracyLoop(num1, n, counter + 1) : n \in {FDiv(num2, Ten)}} : TRUE
    ELSE counter

calc_max_precision(st) ==
    IF st.retVal = 0
    THEN CHOOSE r \in
           {LET rv == IF storeAcc < calcAcc THEN storeAcc ELSE calcAcc
            IN  [ret |-> rv,
                 st  |-> [st EXCEPT !.retVal = rv, !.runs = IMin(st.runs + 1, RunsCap)]] :
              calcAcc \in {AccuracyLoop(One, One, 0)},
              storeAcc \in {AccuracyLoop(One, One, 0)}} : TRUE
    ELSE [ret |-> st.retVal, st |-> st]

\* while (currPrec > 0 && counter < currPrec) { retVal *= 0.1; counter++; }
RECURSIVE MaskLoop(_, _, _)
MaskLoop(retVal, counter, currPrec) ==
    IF currPrec > 0 /\ counter < currPrec
    THEN CHOOSE r \in {MaskLoop(v, counter + 1, currPrec) : v \in {FMul(retVal, Tenth)}} : TRUE
    ELSE retVal

\* calc_precision_cache with the clamp writing the caller's precision into
\* maxPrec instead of leaving the ceiling alone.
calc_precision_cache_overwrite(precision, st) ==
    CHOOSE r \in
      {IF precision > st1.maxPrec THEN [st1 EXCEPT !.maxPrec = precision] ELSE st1 :
         st1 \in {IF st.maxPrec = 0
                  THEN CHOOSE r1 \in {[c.st EXCEPT !.maxPrec = c.ret] :
                                         c \in {calc_max_precision(st)}} : TRUE
                  ELSE st}} : TRUE

\* The value calc_precision leaves in its static maxPrec.
calc_precision_cache(precision, st) ==
    IF st.maxPrec = 0
    THEN CHOOSE r \in {[c.st EXCEPT !.maxPrec = c.ret] : c \in {calc_max_precision(st)}} : TRUE
    ELSE st

\* calc_precision_currPrec without the clamp at the ceiling.
calc_precision_currPrec_noClamp(precision, maxPrec) == precision

\* The level of precision calc_precision uses: maxPrec or precision.
calc_precision_currPrec(precision, maxPrec) ==
    IF precision > maxPrec THEN maxPrec ELSE precision

calc_precision(precision, st) ==
    CHOOSE r \in
      {LET success == st1.maxPrec # 0 /\ ~(precision < 1)
       IN  [ret |-> IF success
                    THEN MaskLoop(One, 0, calc_precision_currPrec(precision, st1.maxPrec))
                    ELSE Zero,
            st  |-> st1] : st1 \in {calc_precision_cache(precision, st)}} : TRUE

---------------------------------------------------------------------------
(* Truncation helper *)

\* sprintf(dbleBuff, "%.<digits>f", val): the decimal numeral printed, as
\* coef * 10^scale with scale >= -digits; printf rounds the exact value to
\* the requested number of places (to nearest, ties to even).
sprintf_f(val, digits) ==
    IF IsNaN(val) THEN [nan |-> TRUE, coef |-> 0, scale |-> 0]
    ELSE IF val[2] >= 0 - digits THEN [nan |-> FALSE, coef |-> val[1], scale |-> val[2]]
    ELSE [nan   |-> FALSE,
          coef  |-> ISgn(val[1]) * RoundHalfEven(IAbs(val[1]), 0 - val[2] - digits, FALSE),
          scale |-> 0 - digits]

\* atof(): the double nearest to the numeral
atof(num) == IF num.nan THEN NaN ELSE Dbl(num.coef, num.scale)

truncate_double(val, digits) ==
    IF digits = 0 THEN val
    ELSE IF digits < 0 \/ digits > 1074 THEN Zero
    ELSE atof(sprintf_f(val, digits))

---------------------------------------------------------------------------
(* Tolerance comparators: each yields [ret, st] *)

dble_greater_than(x, y, precision, st) ==
    IF precision < 1 THEN [ret |-> FALSE, st |-> st]
    ELSE CHOOSE r \in
           {LET dbleMask == c.ret
            IN  [ret |-> /\ dbleMask # Zero
                         /\ DBL_GRTR(x, y)
                         /\ DBL_GRTR(FAdd(x, dbleMask), FAdd(y, dbleMask))
                         /\ DBL_GRTR(FSub(x, dbleMask), FSub(y, dbleMask)),
                 st  |-> c.st] : c \in {calc_precision(precision, st)}} : TRUE

\* dble_less_than comparing the truncated values whatever success is.
dble_less_than_unguarded(x, y, precision, st) ==
    LET xVal == truncate_double(x, precision)
        yVal == truncate_double(y, precision)
    IN  [ret |-> DBL_LESS(xVal, yVal),
         st  |-> IF precision < 1 THEN st ELSE calc_precision(precision, st).st]

dble_less_than(x, y, precision, st) ==
    LET xVal == truncate_double(x, precision)
        yVal == truncate_double(y, precision)
    IN  IF precision < 1 THEN [ret |-> FALSE, st |-> st]
        ELSE CHOOSE r \in
               {[ret |-> c.ret # Zero /\ DBL_LESS(xVal, yVal), st |-> c.st] :
                  c \in {calc_precision(precision, st)}} : TRUE

dble_equal_to(x, y, precision, st) ==
    IF precision < 1 THEN [ret |-> FALSE, st |-> st]
    ELSE CHOOSE r \in
           {LET dbleMask == c.ret
            IN  [ret |-> /\ dbleMask # Zero
                         /\ DBL_GRTR(FAdd(x, dbleMask), y)
                         /\ DBL_LESS(FSub(x, dbleMask), y)
                         /\ DBL_LESS(x, FAdd(y, dbleMask))
                         /\ DBL_GRTR(x, FSub(y, dbleMask)),
                 st  |-> c.st] : c \in {calc_precision(precision, st)}} : TRUE

\* dble_not_equal that starts from retVal = false and so never says true.
dble_not_equal_initFalse(x, y, precision, st) ==
    [ret |-> FALSE, st |-> dble_equal_to(x, y, precision, st).st]

dble_not_equal(x, y, precision, st) ==
    CHOOSE r \in
      {[ret |-> IF e.ret = TRUE THEN FALSE ELSE TRUE, st |-> e.st] :
         e \in {dble_equal_to(x, y, precision, st)}} : TRUE

dble_greater_than_equal_to(x, y, precision, st) ==
    CHOOSE r \in
      {IF e.ret THEN [ret |-> TRUE, st |-> e.st]
       ELSE dble_greater_than(x, y, precision, e.st) :
         e \in {dble_equal_to(x, y, precision, st)}} : TRUE

dble_less_than_equal_to(x, y, precision, st) ==
    CHOOSE r \in
      {IF e.ret THEN [ret |-> TRUE, st |-> e.st]
       ELSE dble_less_than(x, y, precision, e.st) :
         e \in {dble_equal_to(x, y, precision, st)}} : TRUE

---------------------------------------------------------------------------
(* Ellipse sampler *)

calc_ellipse_x_coord(aVal, bVal, yVal) ==
    IF DBL_EQUAL(aVal, Zero) THEN Zero
    ELSE IF DBL_EQUAL(bVal, Zero) THEN Zero
    ELSE IF DBL_GRTR(yVal, bVal) THEN Zero
    ELSE FAbs(FDiv(FMul(FSqrt(FSub(FMul(bVal, bVal), FMul(yVal, yVal))), aVal), bVal))

calc_ellipse_y_coord(aVal, bVal, xVal) ==
    IF DBL_EQUAL(aVal, Zero) THEN Zero
    ELSE IF DBL_EQUAL(bVal, Zero) THEN Zero
    ELSE IF DBL_GRTR(xVal, aVal) THEN Zero
    ELSE FAbs(FDiv(FMul(FSqrt(FSub(FMul(aVal, aVal), FMul(xVal, xVal))), bVal), aVal))

\* retVal[idx] = v in the frame f of plot_ellipse_points.  buf holds the
\* allocated doubles (C index i is buf[i + 1]); stores, the indexes stored
\* to, in order; oob, the stores that fell outside the allocation;
\* nullStores, the stores made through a NULL retVal.  Both kinds of invalid
\* store are undefined behaviour: the build either traps the first one,
\* which ends the process (f.trap), or lets it pass and the run goes on.
StoreDbl(f, idx, v) ==
    IF f.trap /\ (f.nullStores > 0 \/ f.oob # <<>>) THEN f
    ELSE IF ~f.haveBuf
    THEN [f EXCEPT !.nullStores = @ + 1]
    ELSE IF idx >= 0 /\ idx < f.numPoints
    THEN [f EXCEPT !.buf[idx + 1] = v, !.stores = Append(@, idx)]
    ELSE [f EXCEPT !.oob = Append(@, idx), !.stores = Append(@, idx)]

\* EllipseStepX that turns back one pass early (count >= numPoints / 2).
EllipseStepX_turnEarly(f) ==
    LET majPnt == IF f.count = 0 THEN FMul(FNeg(One), FromInt(f.majAbs)) ELSE f.majPnt
        yv     == FMul(f.flipIt, calc_ellipse_y_coord(f.aAbs, f.bAbs, majPnt))
        f2     == StoreDbl(StoreDbl(f, f.count, majPnt), f.count + 1, yv)
        count  == f.count + 2
    IN  IF count >= f.numPoints \div 2
        THEN [f2 EXCEPT !.count = count, !.majPnt = FSub(majPnt, One),
                        !.flipIt = FNeg(One), !.coords = Append(@, majPnt)]
        ELSE [f2 EXCEPT !.count = count, !.majPnt = FAdd(majPnt, One),
                        !.flipIt = One, !.coords = Append(@, majPnt)]


\* One pass of the body of while (count < numPoints) when x is the major axis.
EllipseStepX(f) ==
    LET majPnt == IF f.count = 0 THEN FMul(FNeg(One), FromInt(f.majAbs)) ELSE f.majPnt
        yv     == FMul(f.flipIt, calc_ellipse_y_coord(f.aAbs, f.bAbs, majPnt))
        f2     == StoreDbl(StoreDbl(f, f.count, majPnt), f.count + 1, yv)
        count  == f.count + 2
    IN  IF count > f.numPoints \div 2
        THEN [f2 EXCEPT !.count = count, !.majPnt = FSub(majPnt, One),
                        !.flipIt = FNeg(One), !.coords = Append(@, majPnt)]
        ELSE [f2 EXCEPT !.count = count, !.majPnt = FAdd(majPnt, One),
                        !.flipIt = One, !.coords = Append(@, majPnt)]

\* One pass of the body of while (count < numPoints) when y is the major axis.
EllipseStepY(f) ==
    LET majPnt == IF f.count = 0 THEN Zero ELSE f.majPnt
        flipIt == IF f.count = 0 THEN FNeg(One) ELSE f.flipIt
        xv     == FMul(flipIt, calc_ellipse_x_coord(f.aAbs, f.bAbs, majPnt))
        count  == f.count + 1
        f2     == StoreDbl(StoreDbl(f, f.count, xv), count, majPnt)
    IN  IF count <= f.numPoints \div 4
        THEN [f2 EXCEPT !.count = count, !.majPnt = FAdd(majPnt, One),
                        !.flipIt = FNeg(One), !.coords = Append(@, majPnt)]
        ELSE IF count <= (3 * f.numPoints) \div 4
        THEN [f2 EXCEPT !.count = count, !.majPnt = FSub(majPnt, One),
                        !.flipIt = One, !.coords = Append(@, majPnt)]
        ELSE [f2 EXCEPT !.count = count, !.majPnt = FAdd(majPnt, One),
                        !.flipIt = FNeg(One), !.coords = Append(@, majPnt)]

\* An invalid store was trapped in frame f.
pep_trapped(f) == f.trap /\ (f.nullStores > 0 \/ f.oob # <<>>)

\* int majAbs = aAbs (or bAbs): the conversion of a double to an int.
plot_majAbs(chooseX, aAbs, bAbs) == IF chooseX THEN ToInt(aAbs) ELSE ToInt(bAbs)

\* The allocation loop: calloc fails on its first allocFails attempts.
plot_alloc(allocFails) == allocFails < HARKLEMATH_MAX_TRIES

\* INPUT VALIDATION of plot_ellipse_points.  hasNumPnts: numPnts is not NULL.
\* Yields whether the three checks pass, and the statics.
pep_validate(aVal, bVal, hasNumPnts, st) ==
    CHOOSE r \in
      {IF eqA.ret THEN [valid |-> FALSE, st |-> eqA.st]
       ELSE CHOOSE r1 \in
              {[valid |-> ~eqB.ret /\ hasNumPnts, st |-> eqB.st] :
                 eqB \in {dble_equal_to(bVal, Zero, DBL_PRECISION, eqA.st)}} : TRUE :
         eqA \in {dble_equal_to(aVal, Zero, DBL_PRECISION, st)}} : TRUE

\* DETERMINE MAJOR AXIS: chooseX stays true unless aVal < bVal, signs included.
pep_major(aVal, bVal, st) ==
    CHOOSE r \in {[chooseX |-> ~lt.ret, st |-> lt.st] :
                     lt \in {dble_less_than(aVal, bVal, DBL_PRECISION, st)}} : TRUE

\* DETERMINE NUMBER OF POINTS, entered when success is still true: both
\* branches of each dble_not_equal test assign fabs() of the argument.
pep_count(aVal, bVal, chooseX, st) ==
    CHOOSE r \in
      {CHOOSE r1 \in
         {LET aAbs   == IF neA.ret THEN FAbs(aVal) ELSE FAbs(aVal)
              bAbs   == IF neB.ret THEN FAbs(bVal) ELSE FAbs(bVal)
              majAbs == plot_majAbs(chooseX, aAbs, bAbs)
          IN  [aAbs |-> aAbs, bAbs |-> bAbs, majAbs |-> majAbs,
               numPoints |-> majAbs * 4 * 2,
               success |-> ~(majAbs * 4 * 2 < 8 \/ (majAbs * 4 * 2) % 4 # 0),
               st |-> neB.st] :
            neB \in {dble_not_equal(FAbs(bVal), FromInt(ToInt(FAbs(bVal))),
                                    DBL_PRECISION, neA.st)}} : TRUE :
         neA \in {dble_not_equal(FAbs(aVal), FromInt(ToInt(FAbs(aVal))),
                                 DBL_PRECISION, st)}} : TRUE

\* The locals of plot_ellipse_points when nothing was counted.
pep_noCount == [aAbs |-> Zero, bAbs |-> Zero, majAbs |-> 0, numPoints |-> 0,
                success |-> FALSE]

\* The frame of plot_ellipse_points in front of its sampling loop: the
\* arguments, the locals as c (pep_count or pep_noCount) left them, and
\* ALLOCATE BUFFER.  numPntsIn is *numPnts on entry.
pep_frame(aVal, bVal, hasNumPnts, numPntsIn, allocFails, trap, valid, chooseX, c) ==
    LET haveBuf == c.success /\ plot_alloc(allocFails)
    IN  [pc |-> "loop", aVal |-> aVal, bVal |-> bVal, hasNumPnts |-> hasNumPnts,
         allocFails |-> allocFails, trap |-> trap,
         numPnts |-> IF valid THEN 0 ELSE numPntsIn,
         success |-> haveBuf, chooseX |-> chooseX,
         aAbs |-> c.aAbs, bAbs |-> c.bAbs, majAbs |-> c.majAbs,
         numPoints |-> c.numPoints,
         numTries |-> IF c.success THEN IMin(allocFails + 1, HARKLEMATH_MAX_TRIES) ELSE 0,
         haveBuf |-> haveBuf,
         buf |-> IF haveBuf THEN [i \in 1..c.numPoints |-> Zero] ELSE <<>>,
         count |-> 0, majPnt |-> Zero, flipIt |-> One,
         stores |-> <<>>, oob |-> <<>>, nullStores |-> 0, coords |-> <<>>]

\* CALCULATE COORDINATE PAIRS: one pass of while (count < numPoints), which
\* is entered whatever success is.
pep_step(f) == IF f.chooseX THEN EllipseStepX(f) ELSE EllipseStepY(f)

\* WRAP UP/CLEAN UP and DONE: the pointer returned (retNull: it is NULL;
\* ret: the doubles it points to) and *numPnts.
pep_return(f) ==
    [retNull |-> ~f.success,
     ret     |-> IF f.success THEN f.buf ELSE <<>>,
     numPnts |-> IF f.success THEN f.numPoints ELSE f.numPnts]

---------------------------------------------------------------------------
(* Rounding adapter.  round_a_dble is modelled step by step; rad holds its *)
(* frame: the arguments, the locals and entryMode, the rounding mode the   *)
(* caller had when it made the call.                                       *)

\* fesetround(round): establishes the direction and returns 0 iff the
\* platform supports it; otherwise the direction is not changed.
fesetround(round, mode, supported) ==
    IF round \in supported THEN [rc |-> 0, mode |-> round] ELSE [rc |-> 1, mode |-> mode]

\* (double)(INT_MAX * 1.0) and (double)(INT_MIN * 1.0)
DBL_INT_MAX == FromInt(INT_MAX)

DBL_INT_MIN == FSub(FNeg(FromInt(INT_MAX)), One)

\* INPUT VALIDATION of round_a_dble: the frame on entry.
rad_validate(roundMe, rndDir, mode) ==
    [pc |-> "direction", roundMe |-> roundMe, rndDir |-> rndDir, retVal |-> 0,
     success |-> ~(DBL_GRTR(roundMe, DBL_INT_MAX) \/ DBL_LESS(roundMe, DBL_INT_MIN)),
     restoreNeeded |-> FALSE, currState |-> "0", entryMode |-> mode, switched |-> FALSE]

\* rad_direction with the disabled test of line 127: every one of the four
\* directions is established with fesetround.
rad_direction_allDirs(r, mode, supported) ==
    IF r.success /\ r.rndDir \in RoundingModes
    THEN LET f == fesetround(r.rndDir, mode, supported)
         IN  [rad  |-> [r EXCEPT !.pc = "round", !.restoreNeeded = TRUE,
                                 !.currState = mode,
                                 !.success = ~(f.rc # 0 \/ f.mode # r.rndDir),
                                 !.switched = (f.mode # mode)],
              mode |-> f.mode]
    ELSE [rad |-> [r EXCEPT !.pc = "round"], mode |-> mode]

\* DETERMINE ROUNDING DIRECTION: the frame and the rounding mode afterwards.
rad_direction(r, mode, supported) ==
    IF r.success /\ (r.rndDir = HM_RND \/ r.rndDir = HM_IN)
    THEN LET f == fesetround(r.rndDir, mode, supported)
         IN  [rad  |-> [r EXCEPT !.pc = "round", !.restoreNeeded = TRUE,
                                 !.currState = mode,
                                 !.success = ~(f.rc # 0 \/ f.mode # r.rndDir),
                                 !.switched = (f.mode # mode)],
              mode |-> f.mode]
    ELSE [rad |-> [r EXCEPT !.pc = "round"], mode |-> mode]

\* rad_round entered whenever the range check passed, also after fesetround
\* failed.
rad_round_ignoreSwitch(r) ==
    IF ~(DBL_GRTR(r.roundMe, DBL_INT_MAX) \/ DBL_LESS(r.roundMe, DBL_INT_MIN))
    THEN IF r.rndDir = HM_UP THEN ToInt(FRound(FCeil(r.roundMe)))
         ELSE IF r.rndDir = HM_DWN THEN ToInt(FRound(FFloor(r.roundMe)))
         ELSE ToInt(FRound(r.roundMe))
    ELSE r.retVal

\* ROUND: retVal after the block.
rad_round(r) ==
    IF r.success
    THEN IF r.rndDir = HM_UP THEN ToInt(FRound(FCeil(r.roundMe)))
         ELSE IF r.rndDir = HM_DWN THEN ToInt(FRound(FFloor(r.roundMe)))
         ELSE ToInt(FRound(r.roundMe))
    ELSE r.retVal

\* rad_cleanup that never restores the rounding mode.
rad_cleanup_noRestore(r, mode, supported) == mode

\* CLEAN UP: the rounding mode after the block.
rad_cleanup(r, mode, supported) ==
    IF r.restoreNeeded THEN fesetround(r.currState, mode, supported).mode ELSE mode

\* round_a_dble(roundMe, rndDir) as one call: the value returned and the
\* rounding mode it leaves behind.
round_a_dble(roundMe, rndDir, mode, supported) ==
    CHOOSE r \in
      {[ret  |-> rad_round(d.rad),
        mode |-> rad_cleanup(d.rad, d.mode, supported)] :
         d \in {rad_direction(rad_validate(roundMe, rndDir, mode), mode, supported)}} : TRUE

---------------------------------------------------------------------------
(* Grid geometry.  The hmLineLen structs live in objs, a sequence of       *)
(* [xCoord, yCoord, dist]; a pointer is the index of a struct, 0 if NULL.  *)

NULL == 0

\* abs()
abs(n) == IAbs(n)

\* pow(n, 2) of an int
pow2(n) == FMul(FromInt(n), FromInt(n))

calc_int_point_dist(xCoord1, yCoord1, xCoord2, yCoord2) ==
    IF xCoord1 # xCoord2 \/ yCoord1 # yCoord2
    THEN FSqrt(FAdd(pow2(xCoord2 - xCoord1), pow2(yCoord2 - yCoord1)))
    ELSE Zero

\* determine_mid_point_valid without the test for duplicate coordinates.
determine_mid_point_valid_noCoordTest(point1_ptr, point2_ptr, midPoint_ptr, objs) ==
    /\ point1_ptr # NULL /\ point2_ptr # NULL /\ midPoint_ptr # NULL
    /\ point1_ptr # point2_ptr

\* INPUT VALIDATION of determine_mid_point
determine_mid_point_valid(point1_ptr, point2_ptr, midPoint_ptr, objs) ==
    /\ point1_ptr # NULL /\ point2_ptr # NULL /\ midPoint_ptr # NULL
    /\ point1_ptr # point2_ptr
    /\ ~(objs[point1_ptr].xCoord = objs[point2_ptr].xCoord
         /\ objs[point1_ptr].yCoord = objs[point2_ptr].yCoord)

\* midPoint_ptr->xCoord = rounded; then += the smaller of the two xCoord,
\* both read after the store.
determine_mid_point_assignX(objs, point1_ptr, point2_ptr, midPoint_ptr, rounded) ==
    CHOOSE r \in
      {[o EXCEPT ![midPoint_ptr].xCoord =
            @ + (IF o[point2_ptr].xCoord < o[point1_ptr].xCoord
                 THEN o[point2_ptr].xCoord ELSE o[point1_ptr].xCoord)] :
         o \in {[objs EXCEPT ![midPoint_ptr].xCoord = rounded]}} : TRUE

determine_mid_point_assignY(objs, point1_ptr, point2_ptr, midPoint_ptr, rounded) ==
    CHOOSE r \in
      {[o EXCEPT ![midPoint_ptr].yCoord =
            @ + (IF o[point2_ptr].yCoord < o[point1_ptr].yCoord
                 THEN o[point2_ptr].yCoord ELSE o[point1_ptr].yCoord)] :
         o \in {[objs EXCEPT ![midPoint_ptr].yCoord = rounded]}} : TRUE

\* determine_mid_point: the value returned, the structs and the rounding
\* mode afterwards.
determine_mid_point(point1_ptr, point2_ptr, midPoint_ptr, rndDbl, objs, mode, supported) ==
    IF ~determine_mid_point_valid(point1_ptr, point2_ptr, midPoint_ptr, objs)
    THEN [ret |-> FALSE, objs |-> objs, mode |-> mode]
    ELSE CHOOSE r \in
      {CHOOSE r1 \in
         {[ret  |-> TRUE,
           objs |-> [determine_mid_point_assignY(
                         determine_mid_point_assignX(objs, point1_ptr, point2_ptr,
                                                     midPoint_ptr, rx.ret),
                         point1_ptr, point2_ptr, midPoint_ptr, ry.ret)
                       EXCEPT ![midPoint_ptr].dist = FDiv(distance, FromInt(2))],
           mode |-> ry.mode] :
            ry \in {round_a_dble(
                      FMul(<<5, 0 - 1>>,
                           FromInt(abs(objs[point2_ptr].yCoord - objs[point1_ptr].yCoord))),
                      rndDbl, rx.mode, supported)}} : TRUE :
         distance \in {calc_int_point_dist(objs[point1_ptr].xCoord, objs[point1_ptr].yCoord,
                                           objs[point2_ptr].xCoord, objs[point2_ptr].yCoord)},
         rx \in {round_a_dble(
                   FMul(<<5, 0 - 1>>,
                        FromInt(abs(objs[point2_ptr].xCoord - objs[point1_ptr].xCoord))),
                   rndDbl, mode, supported)}} : TRUE

\* INPUT VALIDATION of determine_triangle_centroid
determine_triangle_centroid_valid(point1_ptr, point2_ptr, point3_ptr, centerPoint_ptr, objs) ==
    /\ point1_ptr # NULL /\ point2_ptr # NULL /\ point3_ptr # NULL
    /\ centerPoint_ptr # NULL
    /\ ~(point1_ptr = point2_ptr \/ point1_ptr = point3_ptr \/ point2_ptr = point3_ptr)
    /\ ~(\/ (objs[point1_ptr].xCoord = objs[point2_ptr].xCoord
             /\ objs[point1_ptr].yCoord = objs[point2_ptr].yCoord)
         \/ (objs[point1_ptr].xCoord = objs[point3_ptr].xCoord
             /\ objs[point1_ptr].yCoord = objs[point3_ptr].yCoord)
         \/ (objs[point2_ptr].xCoord = objs[point3_ptr].xCoord
             /\ objs[point2_ptr].yCoord = objs[point3_ptr].yCoord))

\* determine_triangle_centroid: the value returned, the structs and the
\* rounding mode afterwards.
determine_triangle_centroid(point1_ptr, point2_ptr, point3_ptr, centerPoint_ptr, rndDbl, objs, mode, supported) ==
    IF ~determine_triangle_centroid_valid(point1_ptr, point2_ptr, point3_ptr,
                                          centerPoint_ptr, objs)
    THEN [ret |-> FALSE, objs |-> objs, mode |-> mode]
    ELSE CHOOSE r \in
      {CHOOSE r1 \in
         {[ret  |-> TRUE,
           objs |-> [objs EXCEPT ![centerPoint_ptr].xCoord = rx.ret,
                                 ![centerPoint_ptr].yCoord = ry.ret],
           mode |-> ry.mode] :
            ry \in {round_a_dble(tmpY, rndDbl, rx.mode, supported)}} : TRUE :
         tmpY \in {FDiv(FromInt(objs[point1_ptr].yCoord + objs[point2_ptr].yCoord
                                + objs[point3_ptr].yCoord), FromInt(3))},
         rx \in {round_a_dble(
                   FDiv(FromInt(objs[point1_ptr].xCoord + objs[point2_ptr].xCoord
                                + objs[point3_ptr].xCoord), FromInt(3)),
                   rndDbl, mode, supported)}} : TRUE

\* SOLVE of solve_point_slope_y: the local unknownY0 and the rounding mode
\* afterwards.
solve_point_slope_y_unknownY0(knownX1, knownY1, knownX0, slope, rndDbl, mode, supported) ==
    round_a_dble(FAdd(FMul(slope, FromInt(knownX0 - knownX1)), FromInt(knownY1)),
                 rndDbl, mode, supported)

\* What a caller of solve_point_slope_y can read as its value.  The function
\* ends without a return statement, so the value is indeterminate: the
\* register may still hold unknownY0, or anything else (0 and -1 stand for
\* the other values).
solve_point_slope_y_returns(unknownY0) == {unknownY0, 0, 0 - 1}

\* solve_point_slope_x: x = (y0 - y1) / slope + x1, rounded by round_a_dble,
\* where the slope differs from 0.0; 0 otherwise.
solve_point_slope_x(knownX1, knownY1, knownY0, slope, rndDbl, st, mode, supported) ==
    CHOOSE r \in
      {IF ne.ret
       THEN CHOOSE q \in
              {[ret |-> rx.ret, st |-> ne.st, mode |-> rx.mode] :
                 rx \in {round_a_dble(
                           FAdd(FDiv(FromInt(knownY0 - knownY1), slope),
                                FromInt(knownX1)),
                           rndDbl, mode, supported)}} : TRUE
       ELSE [ret |-> 0, st |-> ne.st, mode |-> mode] :
         ne \in {dble_not_equal(slope, Zero, DBL_PRECISION, st)}} : TRUE

\* The "check for a line" of calculate_triangle_area: three comparisons
\* joined by ||, which only print; the statics afterwards.
calculate_triangle_area_line(semiPerm, lenAB, lenBC, lenCA, st) ==
    CHOOSE r \in
      {IF e1.ret THEN e1.st
       ELSE CHOOSE q \in
              {IF e2.ret THEN e2.st
               ELSE dble_equal_to(semiPerm, lenCA, DBL_PRECISION, e2.st).st :
                 e2 \in {dble_equal_to(semiPerm, lenBC, DBL_PRECISION, e1.st)}} : TRUE :
         e1 \in {dble_equal_to(semiPerm, lenAB, DBL_PRECISION, st)}} : TRUE

\* Heron's formula of calculate_triangle_area
calculate_triangle_area_heron(semiPerm, lenAB, lenBC, lenCA) ==
    FSqrt(FMul(semiPerm, FMul(FMul(FSub(semiPerm, lenAB), FSub(semiPerm, lenBC)),
                              FSub(semiPerm, lenCA))))

calculate_triangle_area(AX, AY, BX, BY_, CX, CY, st) ==
    IF (AX = BX /\ AY = BY_) \/ (AX = CX /\ AY = CY) \/ (BX = CX /\ BY_ = CY)
    THEN [ret |-> FromInt(0 - 1), st |-> st]
    ELSE IF (AX = BX /\ AX = CX) \/ (AY = BY_ /\ AY = CY)
    THEN [ret |-> FromInt(0 - 1), st |-> st]
    ELSE CHOOSE r \in
           {CHOOSE q \in
              {[ret |-> calculate_triangle_area_heron(semiPerm, lenAB, lenBC, lenCA),
                st  |-> calculate_triangle_area_line(semiPerm, lenAB, lenBC, lenCA, st)] :
                 semiPerm \in {FDiv(FAdd(FAdd(lenAB, lenBC), lenCA), FromInt(2))}} : TRUE :
              lenAB \in {calc_int_point_dist(AX, AY, BX, BY_)},
              lenBC \in {calc_int_point_dist(BX, BY_, CX, CY)},
              lenCA \in {calc_int_point_dist(CX, CY, AX, AY)}} : TRUE

\* "Verify all areas" and "Compare all areas" of verify_triangle; area is
\* <<areaABcoord, areaBCcoord, areaCAcoord, areaABC>>.
verify_triangle_verify(area, maxPrec, st) ==
    CHOOSE r \in
      {IF l1.ret THEN [ret |-> FALSE, st |-> l1.st]
       ELSE CHOOSE r2 \in
         {IF l2.ret THEN [ret |-> FALSE, st |-> l2.st]
          ELSE CHOOSE r3 \in
            {IF l3.ret THEN [ret |-> FALSE, st |-> l3.st]
             ELSE CHOOSE r4 \in
               {IF l4.ret THEN [ret |-> FALSE, st |-> l4.st]
                ELSE CHOOSE r5 \in
                  {[ret |-> IF eq.ret = FALSE THEN FALSE ELSE TRUE, st |-> eq.st] :
                     eq \in {dble_equal_to(area[4],
                                           FAdd(FAdd(area[1], area[2]), area[3]),
                                           maxPrec, l4.st)}} : TRUE :
                  l4 \in {dble_less_than(area[4], Zero, maxPrec, l3.st)}} : TRUE :
               l3 \in {dble_less_than(area[3], Zero, maxPrec, l2.st)}} : TRUE :
            l2 \in {dble_less_than(area[2], Zero, maxPrec, l1.st)}} : TRUE :
         l1 \in {dble_less_than(area[1], Zero, maxPrec, st)}} : TRUE

verify_triangle(AX, AY, BX, BY_, CX, CY, xCoord, yCoord, maxPrec, st) ==
    CHOOSE r \in
      {CHOOSE r2 \in
         {CHOOSE r3 \in
            {CHOOSE r4 \in
               {CHOOSE r5 \in
                  {[ret |-> v.ret, st |-> v.st,
                    area |-> <<a1.ret, a2.ret, a3.ret, a4.ret>>] :
                     v \in {verify_triangle_verify(<<a1.ret, a2.ret, a3.ret, a4.ret>>,
                                                   maxPrec, a4.st)}} : TRUE :
                  a4 \in {calculate_triangle_area(AX, AY, BX, BY_, CX, CY, a3.st)}} : TRUE :
               a3 \in {calculate_triangle_area(CX, CY, AX, AY, xCoord, yCoord, a2.st)}} : TRUE :
            a2 \in {calculate_triangle_area(BX, BY_, CX, CY, xCoord, yCoord, a1.st)}} : TRUE :
         a1 \in {calculate_triangle_area(AX, AY, BX, BY_, xCoord, yCoord, st)}} : TRUE

calc_int_point_slope(xCoord1, yCoord1, xCoord2, yCoord2) ==
    IF (xCoord1 # xCoord2 \/ yCoord1 # yCoord2) /\ xCoord2 - xCoord1 # 0
    THEN FDiv(FromInt(yCoord2 - yCoord1), FromInt(xCoord2 - xCoord1))
    ELSE Zero

\* verify_slope: a computed slope equal to 0.0 is taken for a failure of
\* calc_int_point_slope; any other is compared with the expected slope.
verify_slope(xCoord1, yCoord1, xCoord2, yCoord2, slope, maxPrec, st) ==
    CHOOSE r \in
      {CHOOSE q \in
         {IF e0.ret = TRUE THEN [ret |-> FALSE, st |-> e0.st]
          ELSE CHOOSE q2 \in
                 {[ret |-> e1.ret = TRUE, st |-> e1.st] :
                    e1 \in {dble_equal_to(calcSlope, slope, maxPrec, e0.st)}} : TRUE :
            e0 \in {dble_equal_to(Zero, calcSlope, DBL_PRECISION, st)}} : TRUE :
         calcSlope \in {calc_int_point_slope(xCoord1, yCoord1, xCoord2, yCoord2)}} : TRUE

---------------------------------------------------------------------------
(* Coordinate list.  The nodes a call constructs are a sequence of          *)
(* [absX, absY, released]; a node pointer is its index, 0 if NULL; list     *)
(* holds the linked nodes, head first.  The four list operations belong to  *)
(* the coordinate-list collaborator.                                        *)

\* Construct a node: the new pointer, or NULL where the construction fails.
build_new_cartCoord_struct(xCoord, yCoord, nodes, fails) ==
    IF fails THEN [ptr |-> NULL, nodes |-> nodes]
    ELSE [ptr |-> Len(nodes) + 1,
          nodes |-> Append(nodes, [absX |-> xCoord, absY |-> yCoord, released |-> 0])]

\* Append a node to a list: the head, or NULL where the append fails and
\* the node stays unlinked.
add_cartCoord_node(headNode, newNode, list, fails) ==
    IF fails THEN [ptr |-> NULL, list |-> list]
    ELSE [ptr |-> headNode, list |-> Append(list, newNode)]

\* Release a node and clear the caller's pointer.
free_cartCoord_struct(node, nodes) ==
    IF node = NULL THEN [ret |-> FALSE, ptr |-> node, nodes |-> nodes]
    ELSE [ret |-> TRUE, ptr |-> NULL,
          nodes |-> [nodes EXCEPT ![node].released = @ + 1]]

\* Release every node of a list and clear the caller's head pointer.
free_cardCoord_linked_list(headNode, list, nodes) ==
    IF headNode = NULL THEN [ret |-> FALSE, ptr |-> headNode, list |-> list, nodes |-> nodes]
    ELSE [ret |-> TRUE, ptr |-> NULL, list |-> <<>>,
          nodes |-> [n \in DOMAIN nodes |->
                       IF \E k \in DOMAIN list : list[k] = n
                       THEN [nodes[n] EXCEPT !.released = @ + 1] ELSE nodes[n]]]

\* translate_plot_points with both output pointers present
translate_plot_points(relX, relY, cntX, cntY) ==
    IF cntX < 1 \/ cntY < 1 THEN [ret |-> FALSE]
    ELSE IF cntX + relX < 0 \/ cntY - relY < 0 THEN [ret |-> FALSE]
    ELSE [ret |-> TRUE, absX |-> cntX + relX, absY |-> cntY - relY]

\* INPUT VALIDATION of build_geometric_list
bgl_validate(hasCoords, numPnts, centX, centY) ==
    /\ hasCoords
    /\ ~(numPnts < 2 \/ numPnts % 2 # 0)
    /\ ~(centX < 0)
    /\ ~(centY < 0)

\* "Build a node" of build_geometric_list for the translated pair; the
\* construction or the append numbered failAt fails as failKind says.
bgl_node(f, tmpAbsX, tmpAbsY, failKind, failAt) ==
    CHOOSE r \in
      {IF f.retVal = NULL
       THEN IF b.ptr = NULL THEN [f EXCEPT !.success = FALSE]
            ELSE [f EXCEPT !.retVal = b.ptr, !.list = <<b.ptr>>, !.nodes = b.nodes]
       ELSE IF b.ptr = NULL THEN [f EXCEPT !.newNode = NULL, !.success = FALSE]
       ELSE CHOOSE q \in
              {IF a.ptr = NULL
               THEN [f EXCEPT !.newNode = b.ptr, !.nodes = b.nodes, !.success = FALSE]
               ELSE [f EXCEPT !.retVal = a.ptr, !.list = a.list, !.nodes = b.nodes,
                              !.newNode = NULL] :
                 a \in {add_cartCoord_node(f.retVal, b.ptr, f.list,
                                           failKind = "add"
                                           /\ failAt = Len(f.nodes) + 1)}} : TRUE :
         b \in {build_new_cartCoord_struct(tmpAbsX, tmpAbsY, f.nodes,
                                           failKind = "build"
                                           /\ failAt = Len(f.nodes) + 1)}} : TRUE

\* One pass of the BUILD LINKED LIST loop of build_geometric_list, for the
\* pair at i - 1 and i.
bgl_step(f, relEllipseCoords, i, centX, centY, supported, failKind, failAt) ==
    CHOOSE r \in
      {CHOOSE r2 \in
         {CHOOSE r3 \in
            {IF t.ret = FALSE THEN [f EXCEPT !.mode = tmpY.mode, !.success = FALSE]
             ELSE bgl_node([f EXCEPT !.mode = tmpY.mode], t.absX, t.absY,
                           failKind, failAt) :
               t \in {translate_plot_points(tmpX.ret, tmpY.ret, centX, centY)}} : TRUE :
            tmpY \in {round_a_dble(relEllipseCoords[i + 1], HM_UP, tmpX.mode,
                                   supported)}} : TRUE :
         tmpX \in {round_a_dble(relEllipseCoords[i], HM_UP, f.mode, supported)}} : TRUE

\* The loop from index i on; the sequence relEllipseCoords starts at 1, so
\* the pair of the C index i is at i and i + 1.
RECURSIVE bgl_loop(_, _, _, _, _, _, _, _, _)
bgl_loop(f, relEllipseCoords, i, numPnts, centX, centY, supported, failKind, failAt) ==
    IF ~(i < numPnts) \/ ~f.success THEN f
    ELSE CHOOSE r \in
           {bgl_loop(g, relEllipseCoords, i + 2, numPnts, centX, centY, supported,
                     failKind, failAt) :
              g \in {bgl_step(f, relEllipseCoords, i, centX, centY, supported,
                              failKind, failAt)}} : TRUE

\* CLEAN UP of build_geometric_list that forgets the node not yet linked.
bgl_cleanup_listOnly(f) ==
    IF f.success THEN f
    ELSE IF f.retVal # NULL
    THEN CHOOSE r \in
           {[f EXCEPT !.retVal = l.ptr, !.list = l.list, !.nodes = l.nodes] :
              l \in {free_cardCoord_linked_list(f.retVal, f.list, f.nodes)}} : TRUE
    ELSE f

\* CLEAN UP of build_geometric_list
bgl_cleanup(f) ==
    IF f.success THEN f
    ELSE CHOOSE r \in
           {IF g.retVal # NULL
            THEN CHOOSE q \in
                   {[g EXCEPT !.retVal = l.ptr, !.list = l.list, !.nodes = l.nodes] :
                      l \in {free_cardCoord_linked_list(g.retVal, g.list, g.nodes)}} : TRUE
            ELSE g :
              g \in {IF f.newNode # NULL
                     THEN CHOOSE q \in
                            {[f EXCEPT !.newNode = n.ptr, !.nodes = n.nodes] :
                               n \in {free_cartCoord_struct(f.newNode, f.nodes)}} : TRUE
                     ELSE f}} : TRUE

build_geometric_list(hasCoords, relEllipseCoords, numPnts, centX, centY, mode, supported, failKind, failAt) ==
    CHOOSE r \in
      {bgl_cleanup(
         IF f.success
         THEN bgl_loop(f, relEllipseCoords, 1, numPnts, centX, centY, supported,
                       failKind, failAt)
         ELSE f) :
         f \in {[retVal |-> NULL, newNode |-> NULL, nodes |-> <<>>, list |-> <<>>,
                 success |-> bgl_validate(hasCoords, numPnts, centX, centY),
                 mode |-> mode]}} : TRUE

---------------------------------------------------------------------------
(* Window centre *)

\* INPUT VALIDATION of determine_center; hasX, hasY: the pointer is not NULL.
determine_center_valid(width, height, hasX, hasY) ==
    ~(width < 3) /\ ~(height < 3) /\ ~(~hasX \/ ~hasY)

determine_center_realOrientWin(orientWin) ==
    IF orientWin = HM_UP_LEFT \/ orientWin = HM_UP_RIGHT
       \/ orientWin = HM_LOW_LEFT \/ orientWin = HM_LOW_RIGHT
    THEN orientWin
    ELSE HM_UP_LEFT

\* determine_center_realWidth with an even width always taken one less.
determine_center_realWidth_noBias(width, realOrientWin) ==
    IF width % 2 = 1 THEN width ELSE width - 1

determine_center_realWidth(width, realOrientWin) ==
    IF width % 2 = 1 THEN width
    ELSE IF realOrientWin = HM_UP_RIGHT \/ realOrientWin = HM_LOW_RIGHT
         THEN width + 1
         ELSE width - 1

determine_center_realHeight(height, realOrientWin) ==
    IF height % 2 = 1 THEN height
    ELSE IF realOrientWin = HM_LOW_LEFT \/ realOrientWin = HM_LOW_RIGHT
         THEN height + 1
         ELSE height - 1

\* determine_center that clears the outputs it has before it validates.
determine_center_clearFirst(width, height, hasX, hasY, xIn, yIn, orientWin) ==
    IF determine_center_valid(width, height, hasX, hasY)
    THEN LET o == determine_center_realOrientWin(orientWin)
         IN  [ret |-> TRUE,
              x   |-> ((determine_center_realWidth(width, o) - 1) \div 2) + 1,
              y   |-> ((determine_center_realHeight(height, o) - 1) \div 2) + 1]
    ELSE [ret |-> FALSE, x |-> IF hasX THEN 0 ELSE xIn, y |-> IF hasY THEN 0 ELSE yIn]

\* determine_center(width, height, xCoord, yCoord, orientWin): the value
\* returned and *xCoord, *yCoord afterwards, xIn and yIn being what the
\* caller's variables held.
determine_center(width, height, hasX, hasY, xIn, yIn, orientWin) ==
    IF determine_center_valid(width, height, hasX, hasY)
    THEN LET o == determine_center_realOrientWin(orientWin)
         IN  [ret |-> TRUE,
              x   |-> ((determine_center_realWidth(width, o) - 1) \div 2) + 1,
              y   |-> ((determine_center_realHeight(height, o) - 1) \div 2) + 1]
    ELSE [ret |-> FALSE, x |-> xIn, y |-> yIn]

---------------------------------------------------------------------------
(* The state machine: a single-threaded host that calls the library.       *)

VARIABLES
    rndMode,        \* the rounding direction of the floating-point environment
    fenvSupported,  \* the rounding directions the platform can establish
    statics,        \* [maxPrec, retVal, runs]: the function-local statics
    call,           \* the last call that completed, with its result
    rad,            \* the frame of the running round_a_dble, pc = "idle" if none
    pep,            \* the frame of the running plot_ellipse_points, likewise
    crashed,        \* an invalid store was trapped: the process is gone
    thr             \* the threads that call round_a_dble side by side

vars == <<rndMode, fenvSupported, statics, call, rad, pep, crashed, thr>>

\* Largest semi-axis the sampler is called with.
MaxAxis == 3

\* A double so large that adding 0.1 to it does not change it.
Huge == <<1, MantDigits + 2>>

\* Doubles handed to the comparators and to truncate_double.
DblInputs ==
    {Zero, One, <<14, 0 - 2>>, <<16, 0 - 2>>, <<19, 0 - 2>>, <<0 - 19, 0 - 2>>,
     <<27, 0 - 1>>, <<125, 0 - 3>>, Huge, FNeg(Huge)}

\* Precisions handed to the comparators and to calc_precision.
PrecInputs == {0 - 1, 0, 1, 2, MantDigits - 1, MantDigits, MantDigits + 1, DBL_PRECISION}

\* Digit counts handed to truncate_double.
DigitInputs == {0 - 1, 0, 1, 2, 3, 1074, 1075}

\* Semi-axes handed to plot_ellipse_points.
AxisInputs ==
    {Zero, <<5, 0 - 1>>, <<25, 0 - 2>>, <<27, 0 - 1>>, FromInt(0 - MaxAxis)}
        \cup {FromInt(i) : i \in 1..MaxAxis}

\* Values handed to round_a_dble.
RoundInputs ==
    {Zero, <<4, 0 - 1>>, <<25, 0 - 1>>, <<27, 0 - 1>>, <<0 - 27, 0 - 1>>, <<3, 0>>,
     <<1, 10>>, <<0 - 1, 10>>}

\* Directions handed to round_a_dble: the four macros and an invalid one.
DirInputs == RoundingModes \cup {"invalid"}

\* Largest window dimension determine_center is called with.
MaxDim == 6

\* Widths and heights handed to determine_center.
DimInputs == (0 - 1)..MaxDim

\* Orientations handed to determine_center: the four macros, 0 and 5.
OrientInputs == 0..5

\* What the caller's x and y variables hold before determine_center.
CoordBefore == 0 - 7

\* Largest coordinate of a grid point handed to the geometry functions.
MaxCoord == 5

\* An hmLineLen struct
Pnt(x, y) == [xCoord |-> x, yCoord |-> y, dist |-> Zero]

\* The structs the caller holds: four of them, some with equal coordinates.
HeapInputs ==
    {<<Pnt(0, 0), Pnt(MaxCoord - 1, 0), Pnt(1, 3), Pnt(MaxCoord, MaxCoord)>>,
     <<Pnt(0, 0), Pnt(MaxCoord, 0), Pnt(0, 0), Pnt(MaxCoord, MaxCoord)>>,
     <<Pnt(2, MaxCoord), Pnt(0 - 3, 1), Pnt(2, 2), Pnt(0 - 3, 1)>>}

\* Pointers handed to the geometry functions: NULL or one of the structs.
PtrInputs == 0..4

\* Slopes and known coordinates handed to solve_point_slope_y.
SlopeInputs == {Zero, <<5, 0 - 1>>, <<0 - 15, 0 - 1>>, <<2, 0>>}

KnownInputs == {0, 1, 3, 0 - 7}

NoCall == [fn |-> "none"]

\* The threads of the two-thread scenario.
Threads == {1, 2}

\* No thread besides the host: shared says whether the rounding mode is one
\* per process; env, the rounding mode of each thread where it is not;
\* frame, each thread's call of round_a_dble; overlap, whether a call was
\* entered while another one was running; mode0, the mode before any call;
\* roundedUnder, the mode in force while each thread's ROUND block ran.
NoThreads(shared, mode) ==
    [shared |-> shared, mode0 |-> mode, env |-> [t \in Threads |-> mode],
     frame |-> [t \in Threads |-> [pc |-> "idle"]], overlap |-> FALSE,
     roundedUnder |-> [t \in Threads |-> "none"]]

IdleFrame == [pc |-> "idle"]

Init ==
    /\ rndMode = HM_RND
    /\ fenvSupported \in {RoundingModes, RoundingModes \ {HM_IN}}
    /\ statics = [maxPrec |-> 0, retVal |-> 0, runs |-> 0]
    /\ call = NoCall
    /\ rad = IdleFrame
    /\ pep = IdleFrame
    /\ crashed = FALSE
    /\ thr = NoThreads(FALSE, HM_RND)

\* The host may make a call when nothing is running and the last result
\* has been taken.
Ready == ~crashed /\ rad.pc = "idle" /\ pep.pc = "idle" /\ call.fn = "none"

\* The host takes the result of the last call.
HostContinue ==
    /\ ~crashed /\ rad.pc = "idle" /\ pep.pc = "idle" /\ call.fn # "none"
    /\ call' = NoCall
    /\ UNCHANGED <<rndMode, fenvSupported, statics, rad, pep, crashed, thr>>

Call_calc_precision ==
    /\ Ready
    /\ \E p \in PrecInputs :
         LET c == calc_precision(p, statics)
         IN  /\ call' = [fn |-> "calc_precision", precision |-> p, ret |-> c.ret,
                         before |-> statics]
             /\ statics' = c.st
    /\ UNCHANGED <<rndMode, fenvSupported, rad, pep, crashed, thr>>

Call_truncate_double ==
    /\ Ready
    /\ \E v \in DblInputs, d \in DigitInputs :
         call' = [fn |-> "truncate_double", val |-> v, digits |-> d,
                  ret |-> truncate_double(v, d)]
    /\ UNCHANGED <<rndMode, fenvSupported, statics, rad, pep, crashed, thr>>

\* A call of one of the six comparators.
CallCmp(fn, c, x, y, p) ==
    /\ call' = [fn |-> fn, x |-> x, y |-> y, precision |-> p, ret |-> c.ret,
                before |-> statics]
    /\ statics' = c.st
    /\ UNCHANGED <<rndMode, fenvSupported, rad, pep, crashed, thr>>

Call_dble_greater_than ==
    /\ Ready
    /\ \E x \in DblInputs, y \in DblInputs, p \in PrecInputs :
         CallCmp("dble_greater_than", dble_greater_than(x, y, p, statics), x, y, p)

Call_dble_less_than ==
    /\ Ready
    /\ \E x \in DblInputs, y \in DblInputs, p \in PrecInputs :
         CallCmp("dble_less_than", dble_less_than(x, y, p, statics), x, y, p)

Call_dble_equal_to ==
    /\ Ready
    /\ \E x \in DblInputs, y \in DblInputs, p \in PrecInputs :
         CallCmp("dble_equal_to", dble_equal_to(x, y, p, statics), x, y, p)

Call_dble_not_equal ==
    /\ Ready
    /\ \E x \in DblInputs, y \in DblInputs, p \in PrecInputs :
         CallCmp("dble_not_equal", dble_not_equal(x, y, p, statics), x, y, p)

Call_dble_greater_than_equal_to ==
    /\ Ready
    /\ \E x \in DblInputs, y \in DblInputs, p \in PrecInputs :
         CallCmp("dble_greater_than_equal_to",
                 dble_greater_than_equal_to(x, y, p, statics), x, y, p)

Call_dble_less_than_equal_to ==
    /\ Ready
    /\ \E x \in DblInputs, y \in DblInputs, p \in PrecInputs :
         CallCmp("dble_less_than_equal_to",
                 dble_less_than_equal_to(x, y, p, statics), x, y, p)

Call_determine_center ==
    /\ Ready
    /\ \E width \in DimInputs, height \in DimInputs, hasX \in BOOLEAN, hasY \in BOOLEAN,
          orientWin \in OrientInputs :
         \E r \in {determine_center(width, height, hasX, hasY,
                                    CoordBefore, CoordBefore, orientWin)} :
            call' = [fn |-> "determine_center", width |-> width, height |-> height,
                     hasX |-> hasX, hasY |-> hasY, orientWin |-> orientWin,
                     ret |-> r.ret, x |-> r.x, y |-> r.y]
    /\ UNCHANGED <<rndMode, fenvSupported, statics, rad, pep, crashed, thr>>

Call_determine_mid_point ==
    /\ Ready
    /\ \E objs \in HeapInputs, p1 \in PtrInputs, p2 \in PtrInputs, mp \in PtrInputs,
          rndDbl \in DirInputs :
         \E r \in {determine_mid_point(p1, p2, mp, rndDbl, objs, rndMode, fenvSupported)} :
            /\ call' = [fn |-> "determine_mid_point", point1_ptr |-> p1,
                        point2_ptr |-> p2, midPoint_ptr |-> mp, rndDbl |-> rndDbl,
                        before |-> objs, ret |-> r.ret, after |-> r.objs]
            /\ rndMode' = r.mode
    /\ UNCHANGED <<fenvSupported, statics, rad, pep, crashed, thr>>

Call_determine_triangle_centroid ==
    /\ Ready
    /\ \E objs \in HeapInputs, p1 \in PtrInputs, p2 \in PtrInputs, p3 \in PtrInputs,
          cp \in PtrInputs, rndDbl \in DirInputs :
         \E r \in {determine_triangle_centroid(p1, p2, p3, cp, rndDbl, objs,
                                               rndMode, fenvSupported)} :
            /\ call' = [fn |-> "determine_triangle_centroid", point1_ptr |-> p1,
                        point2_ptr |-> p2, point3_ptr |-> p3, centerPoint_ptr |-> cp,
                        rndDbl |-> rndDbl, before |-> objs, ret |-> r.ret,
                        after |-> r.objs]
            /\ rndMode' = r.mode
    /\ UNCHANGED <<fenvSupported, statics, rad, pep, crashed, thr>>

Call_solve_point_slope_y ==
    /\ Ready
    /\ \E knownX1 \in KnownInputs, knownY1 \in KnownInputs, knownX0 \in KnownInputs,
          slope \in SlopeInputs, rndDbl \in DirInputs :
         \E r \in {solve_point_slope_y_unknownY0(knownX1, knownY1, knownX0, slope, rndDbl,
                                                 rndMode, fenvSupported)} :
         \E ret \in solve_point_slope_y_returns(r.ret) :
            /\ call' = [fn |-> "solve_point_slope_y", knownX1 |-> knownX1,
                        knownY1 |-> knownY1, knownX0 |-> knownX0, slope |-> slope,
                        rndDbl |-> rndDbl, unknownY0 |-> r.ret, ret |-> ret]
            /\ rndMode' = r.mode
    /\ UNCHANGED <<fenvSupported, statics, rad, pep, crashed, thr>>

Call_solve_point_slope_x ==
    /\ Ready
    /\ \E knownX1 \in KnownInputs, knownY1 \in KnownInputs, knownY0 \in KnownInputs,
          slope \in SlopeInputs, rndDbl \in DirInputs :
         \E r \in {solve_point_slope_x(knownX1, knownY1, knownY0, slope, rndDbl,
                                       statics, rndMode, fenvSupported)} :
            /\ call' = [fn |-> "solve_point_slope_x", knownX1 |-> knownX1,
                        knownY1 |-> knownY1, knownY0 |-> knownY0, slope |-> slope,
                        rndDbl |-> rndDbl, before |-> statics, ret |-> r.ret]
            /\ statics' = r.st
            /\ rndMode' = r.mode
    /\ UNCHANGED <<fenvSupported, rad, pep, crashed, thr>>

\* Vertices handed to calculate_triangle_area: grid points, some of them on
\* one horizontal, vertical or diagonal line.
VertexInputs ==
    {<<0, 0>>, <<MaxCoord - 1, 0>>, <<0, 3>>, <<1, 1>>, <<2, 2>>, <<0 - 3, 0 - 3>>,
     <<0 - 2, 0 - 2>>, <<1, 0>>, <<0, MaxCoord - 1>>}

\* Triangles and points handed to verify_triangle.
TriangleInputs ==
    {<<<<0, 0>>, <<MaxCoord - 1, 0>>, <<0, MaxCoord - 1>>>>,
     <<<<0, 0>>, <<MaxCoord - 1, 0>>, <<0, 3>>>>,
     <<<<0, 0>>, <<2, 2>>, <<MaxCoord - 1, MaxCoord - 1>>>>}

PointInputs == {<<x, y>> : x \in 0..MaxCoord, y \in 0..MaxCoord}

Call_calculate_triangle_area ==
    /\ Ready
    /\ \E A \in VertexInputs, B \in VertexInputs, C \in VertexInputs :
         \E r \in {calculate_triangle_area(A[1], A[2], B[1], B[2], C[1], C[2], statics)} :
            /\ call' = [fn |-> "calculate_triangle_area", A |-> A, B |-> B, C |-> C,
                        ret |-> r.ret]
            /\ statics' = r.st
    /\ UNCHANGED <<rndMode, fenvSupported, rad, pep, crashed, thr>>

Call_verify_triangle ==
    /\ Ready
    /\ \E t \in TriangleInputs, P \in PointInputs, maxPrec \in {0, 1, MantDigits, DBL_PRECISION} :
         \E r \in {verify_triangle(t[1][1], t[1][2], t[2][1], t[2][2], t[3][1], t[3][2],
                                   P[1], P[2], maxPrec, statics)} :
            /\ call' = [fn |-> "verify_triangle", A |-> t[1], B |-> t[2], C |-> t[3],
                        P |-> P, maxPrec |-> maxPrec, before |-> statics,
                        area |-> r.area, ret |-> r.ret]
            /\ statics' = r.st
    /\ UNCHANGED <<rndMode, fenvSupported, rad, pep, crashed, thr>>

Call_verify_slope ==
    /\ Ready
    /\ \E xCoord1 \in KnownInputs, yCoord1 \in KnownInputs, xCoord2 \in KnownInputs,
          yCoord2 \in KnownInputs, slope \in SlopeInputs, maxPrec \in {1, DBL_PRECISION} :
         \E r \in {verify_slope(xCoord1, yCoord1, xCoord2, yCoord2, slope, maxPrec,
                                statics)} :
            /\ call' = [fn |-> "verify_slope", xCoord1 |-> xCoord1, yCoord1 |-> yCoord1,
                        xCoord2 |-> xCoord2, yCoord2 |-> yCoord2, slope |-> slope,
                        maxPrec |-> maxPrec, ret |-> r.ret]
            /\ statics' = r.st
    /\ UNCHANGED <<rndMode, fenvSupported, rad, pep, crashed, thr>>

\* Longest array of doubles handed to build_geometric_list, in pairs.
MaxPairs == 3

\* Arrays of MaxPairs pairs handed to build_geometric_list: pairs that
\* translate around every valid center, and pairs of which the second or
\* the last does not.
CoordArrayInputs ==
    {[k \in 1..(2 * MaxPairs) |->
        IF k % 2 = 1 THEN FromInt((k + 1) \div 2 - 2) ELSE One],
     [k \in 1..(2 * MaxPairs) |-> IF k = 3 THEN FromInt(0 - 3) ELSE Zero],
     [k \in 1..(2 * MaxPairs) |->
        IF k % 2 = 1 THEN <<15, 0 - 1>>
        ELSE IF k = 2 * MaxPairs THEN FromInt(MaxCoord) ELSE <<5, 0 - 1>>]}

\* Which construction or append of a call fails, if any.
FailKindInputs == {"none", "build", "add"}

Call_build_geometric_list ==
    /\ Ready
    /\ \E hasCoords \in BOOLEAN, relEllipseCoords \in CoordArrayInputs,
          numPnts \in 0..(2 * MaxPairs), centX \in (0 - 1)..2, centY \in (0 - 1)..2,
          failKind \in FailKindInputs, failAt \in 1..MaxPairs :
         \E r \in {build_geometric_list(hasCoords, relEllipseCoords, numPnts, centX,
                                        centY, rndMode, fenvSupported, failKind,
                                        failAt)} :
            /\ call' = [fn |-> "build_geometric_list", hasCoords |-> hasCoords,
                        relEllipseCoords |-> relEllipseCoords, numPnts |-> numPnts,
                        centX |-> centX, centY |-> centY, failKind |-> failKind,
                        failAt |-> failAt, success |-> r.success, ret |-> r.retVal,
                        list |-> r.list, nodes |-> r.nodes]
            /\ rndMode' = r.mode
    /\ UNCHANGED <<fenvSupported, statics, rad, pep, crashed, thr>>

\* Coordinates handed to calc_ellipse_x_coord and calc_ellipse_y_coord: on
\* the axis, inside, on and beyond the semi-axis, on both sides.
EllipseCoordInputs ==
    {Zero, One, <<5, 0 - 1>>, FromInt(0 - 1), FromInt(MaxAxis), FromInt(0 - MaxAxis),
     FromInt(MaxAxis + 1), FromInt(0 - (MaxAxis + 1))}

Call_calc_ellipse_x_coord ==
    /\ Ready
    /\ \E aVal \in AxisInputs, bVal \in AxisInputs, yVal \in EllipseCoordInputs :
         call' = [fn |-> "calc_ellipse_x_coord", aVal |-> aVal, bVal |-> bVal,
                  coord |-> yVal, semiAxis |-> bVal,
                  ret |-> calc_ellipse_x_coord(aVal, bVal, yVal)]
    /\ UNCHANGED <<rndMode, fenvSupported, statics, rad, pep, crashed, thr>>

Call_calc_ellipse_y_coord ==
    /\ Ready
    /\ \E aVal \in AxisInputs, bVal \in AxisInputs, xVal \in EllipseCoordInputs :
         call' = [fn |-> "calc_ellipse_y_coord", aVal |-> aVal, bVal |-> bVal,
                  coord |-> xVal, semiAxis |-> aVal,
                  ret |-> calc_ellipse_y_coord(aVal, bVal, xVal)]
    /\ UNCHANGED <<rndMode, fenvSupported, statics, rad, pep, crashed, thr>>

\* *numPnts before the call, where the caller passes a variable.
NumPntsBefore == 0 - 1

\* Counts of failing calloc attempts tried.
AllocFailInputs == {0, HARKLEMATH_MAX_TRIES - 1, HARKLEMATH_MAX_TRIES}

\* plot_ellipse_points is entered and runs up to its sampling loop.
PepCall ==
    /\ Ready
    /\ \E a \in AxisInputs, b \in AxisInputs, hasNumPnts \in BOOLEAN,
          allocFails \in AllocFailInputs, trap \in BOOLEAN :
         \E v \in {pep_validate(a, b, hasNumPnts, statics)} :
         \E m \in {pep_major(a, b, v.st)} :
         \E c \in {IF v.valid THEN pep_count(a, b, m.chooseX, m.st) ELSE pep_noCount} :
            /\ pep' = pep_frame(a, b, hasNumPnts, NumPntsBefore, allocFails, trap,
                                v.valid, m.chooseX, c)
            /\ statics' = IF v.valid THEN c.st ELSE m.st
    /\ UNCHANGED <<rndMode, fenvSupported, call, rad, crashed, thr>>

\* One pass of the sampling loop; a trapped store ends the process.
PepLoop ==
    /\ ~crashed /\ pep.pc = "loop" /\ pep.count < pep.numPoints
    /\ LET f == pep_step(pep)
       IN  /\ pep' = IF pep_trapped(f) THEN [f EXCEPT !.pc = "trapped"] ELSE f
           /\ crashed' = pep_trapped(f)
    /\ UNCHANGED <<rndMode, fenvSupported, statics, call, rad, thr>>

\* The loop is left: WRAP UP/CLEAN UP and return.
PepReturn ==
    /\ ~crashed /\ pep.pc = "loop" /\ ~(pep.count < pep.numPoints)
    /\ call' = [fn |-> "plot_ellipse_points", aVal |-> pep.aVal, bVal |-> pep.bVal,
                hasNumPnts |-> pep.hasNumPnts, allocFails |-> pep.allocFails,
                res |-> pep_return(pep), frame |-> pep]
    /\ pep' = IdleFrame
    /\ UNCHANGED <<rndMode, fenvSupported, statics, rad, crashed, thr>>

\* round_a_dble is entered: INPUT VALIDATION.
RadCall ==
    /\ Ready
    /\ \E roundMe \in RoundInputs, rndDir \in DirInputs :
         rad' = rad_validate(roundMe, rndDir, rndMode)
    /\ UNCHANGED <<rndMode, fenvSupported, statics, call, pep, crashed, thr>>

\* DETERMINE ROUNDING DIRECTION
RadDirection ==
    /\ ~crashed /\ rad.pc = "direction"
    /\ LET d == rad_direction(rad, rndMode, fenvSupported)
       IN  rad' = d.rad /\ rndMode' = d.mode
    /\ UNCHANGED <<fenvSupported, statics, call, pep, crashed, thr>>

\* ROUND
RadRound ==
    /\ ~crashed /\ rad.pc = "round"
    /\ rad' = [rad EXCEPT !.pc = "cleanup", !.retVal = rad_round(rad)]
    /\ UNCHANGED <<rndMode, fenvSupported, statics, call, pep, crashed, thr>>

\* CLEAN UP
RadCleanup ==
    /\ ~crashed /\ rad.pc = "cleanup"
    /\ rndMode' = rad_cleanup(rad, rndMode, fenvSupported)
    /\ rad' = [rad EXCEPT !.pc = "return"]
    /\ UNCHANGED <<fenvSupported, statics, call, pep, crashed, thr>>

\* DONE: return retVal
RadReturn ==
    /\ ~crashed /\ rad.pc = "return"
    /\ call' = [fn |-> "round_a_dble", roundMe |-> rad.roundMe, rndDir |-> rad.rndDir,
                ret |-> rad.retVal, success |-> rad.success, switched |-> rad.switched,
                modeBefore |-> rad.entryMode, modeAfter |-> rndMode]
    /\ rad' = IdleFrame
    /\ UNCHANGED <<rndMode, fenvSupported, statics, pep, crashed, thr>>

Next ==
    \/ HostContinue
    \/ Call_calc_precision
    \/ Call_truncate_double
    \/ Call_dble_greater_than
    \/ Call_dble_less_than
    \/ Call_dble_equal_to
    \/ Call_dble_not_equal
    \/ Call_dble_greater_than_equal_to
    \/ Call_dble_less_than_equal_to
    \/ Call_determine_center
    \/ Call_determine_mid_point
    \/ Call_determine_triangle_centroid
    \/ Call_solve_point_slope_y
    \/ PepCall
    \/ PepLoop
    \/ PepReturn
    \/ Call_solve_point_slope_x
    \/ Call_calculate_triangle_area
    \/ Call_verify_triangle
    \/ Call_verify_slope
    \/ Call_build_geometric_list
    \/ Call_calc_ellipse_x_coord
    \/ Call_calc_ellipse_y_coord
    \/ RadCall
    \/ RadDirection
    \/ RadRound
    \/ RadCleanup
    \/ RadReturn

Spec == Init /\ [][Next]_vars

---------------------------------------------------------------------------
(* Two threads that each call round_a_dble once, nothing serialising them. *)
(* The floating-point environment is one per thread where the platform     *)
(* follows C11 7.6 and one per process elsewhere: thr.shared.               *)

\* Values and directions the threads round with: directions that switch
\* the rounding mode.
ThreadRoundInputs == {<<25, 0 - 1>>, <<0 - 27, 0 - 1>>}

ThreadDirInputs == {HM_RND, HM_IN}

ThreadInit ==
    /\ rndMode \in RoundingModes
    /\ fenvSupported = RoundingModes
    /\ statics = [maxPrec |-> 0, retVal |-> 0, runs |-> 0]
    /\ call = NoCall
    /\ rad = IdleFrame
    /\ pep = IdleFrame
    /\ crashed = FALSE
    /\ \E shared \in BOOLEAN : thr = NoThreads(shared, rndMode)

\* fegetround() in thread t
ThrMode(t) == IF thr.shared THEN rndMode ELSE thr.env[t]

\* Thread t goes on with frame f, the rounding mode it sees being mode.
ThrStep(t, f, mode, overlap, under) ==
    /\ rndMode' = IF thr.shared THEN mode ELSE rndMode
    /\ thr' = [thr EXCEPT !.frame[t] = f,
                          !.env[t] = IF thr.shared THEN @ ELSE mode,
                          !.overlap = overlap,
                          !.roundedUnder[t] = under]
    /\ UNCHANGED <<fenvSupported, statics, call, rad, pep, crashed>>

\* Thread t enters round_a_dble: INPUT VALIDATION.
ThrCall(t) ==
    /\ thr.frame[t].pc = "idle"
    /\ \E roundMe \in ThreadRoundInputs, rndDir \in ThreadDirInputs :
         ThrStep(t, rad_validate(roundMe, rndDir, ThrMode(t)), ThrMode(t),
                 thr.overlap \/ \E u \in Threads \ {t} :
                                    thr.frame[u].pc \notin {"idle", "done"},
                 thr.roundedUnder[t])

\* DETERMINE ROUNDING DIRECTION in thread t
ThrDirection(t) ==
    /\ thr.frame[t].pc = "direction"
    /\ \E d \in {rad_direction(thr.frame[t], ThrMode(t), fenvSupported)} :
         ThrStep(t, d.rad, d.mode, thr.overlap, thr.roundedUnder[t])

\* ROUND in thread t
ThrRound(t) ==
    /\ thr.frame[t].pc = "round"
    /\ ThrStep(t, [thr.frame[t] EXCEPT !.pc = "cleanup",
                                       !.retVal = rad_round(thr.frame[t])],
               ThrMode(t), thr.overlap, ThrMode(t))

\* CLEAN UP and DONE in thread t
ThrCleanup(t) ==
    /\ thr.frame[t].pc = "cleanup"
    /\ ThrStep(t, [thr.frame[t] EXCEPT !.pc = "done"],
               rad_cleanup(thr.frame[t], ThrMode(t), fenvSupported),
               thr.overlap, thr.roundedUnder[t])

ThreadNext ==
    \E t \in Threads : ThrCall(t) \/ ThrDirection(t) \/ ThrRound(t) \/ ThrCleanup(t)

SpecThreads == ThreadInit /\ [][ThreadNext]_vars

---------------------------------------------------------------------------
(* Properties *)

\* plot_ellipse_points has returned.
IsPlot == call.fn = "plot_ellipse_points"

Comparators ==
    {"dble_greater_than", "dble_less_than", "dble_equal_to", "dble_not_equal",
     "dble_greater_than_equal_to", "dble_less_than_equal_to"}

\* 10^-k as a double
TenToMinus(k) == IF k = 0 THEN One ELSE <<1, 0 - k>>

\* C1: whatever the value and the direction, also when the range check or
\* the switch of the rounding mode fails, the rounding mode after
\* round_a_dble returns is the mode the caller had before the call.
C1_ModeRestored ==
    /\ rad.pc = "return" => rndMode = rad.entryMode
    /\ call.fn = "round_a_dble" => call.modeAfter = call.modeBefore

\* A call of round_a_dble that did switch the mode has returned.
C1_Witness ==
    /\ call.fn = "round_a_dble"
    /\ call.rndDir = HM_IN /\ call.switched /\ call.success

\* The semi-axis plot_ellipse_points walks along.
MajorAxisValue == IF call.frame.chooseX THEN call.aVal ELSE call.bVal

\* round(|major axis value|) * 8, round to the nearest integer
C2_Expected == ToInt(FRound(FAbs(MajorAxisValue))) * 8

\* C2: for non-zero a and b the count reported by plot_ellipse_points is
\* round(|major axis value|) * 8, rounding to the nearest integer also for
\* non-integral semi-axes, and the call fails unless that count is a
\* positive multiple of 4.
C2_PointCount ==
    (/\ IsPlot
     /\ call.aVal # Zero /\ call.bVal # Zero
     /\ call.hasNumPnts /\ call.allocFails < HARKLEMATH_MAX_TRIES)
    => IF C2_Expected > 0 /\ C2_Expected % 4 = 0
       THEN ~call.res.retNull /\ call.res.numPnts = C2_Expected
       ELSE call.res.retNull

\* C3: a failing plot_ellipse_points returns no buffer and makes no access
\* through the buffer pointer; after the allocation failed the sampling loop
\* stores no coordinate.
C3_FailNoAccess ==
    /\ (pep.pc # "idle" /\ ~pep.success) => (pep.nullStores = 0 /\ pep.stores = <<>>)
    /\ (IsPlot /\ ~call.frame.success) =>
          /\ call.res.retNull
          /\ call.frame.nullStores = 0 /\ call.frame.stores = <<>>

\* The k-th (x, y) pair of the returned buffer, k from 0.
Pair(k) == <<call.res.ret[2 * k + 1], call.res.ret[2 * k + 2]>>

\* C4: whichever axis is the major one, a successful plot_ellipse_points
\* returns interleaved (x, y) pairs that pass (-a, 0), (0, b), (+a, 0) and
\* (0, -b) in this order, a quarter of the pairs apart; when y is the major
\* axis of half-length m the y values are whole numbers within [-m, m] and
\* x is <= 0 in the first and last quarter and >= 0 in between.
C4_Order ==
    (/\ IsPlot /\ ~call.res.retNull
     /\ IsWhole(call.aVal) /\ IsWhole(call.bVal))
    => LET m == call.frame.majAbs
           a == FAbs(call.aVal)
           b == FAbs(call.bVal)
       IN  /\ Len(call.res.ret) = 8 * m
           /\ Pair(0) = <<FNeg(a), Zero>>
           /\ Pair(m) = <<Zero, b>>
           /\ Pair(2 * m) = <<a, Zero>>
           /\ Pair(3 * m) = <<Zero, FNeg(b)>>
           /\ ~call.frame.chooseX =>
                \A k \in 0..(4 * m - 1) :
                    /\ IsWhole(Pair(k)[2])
                    /\ DBL_LESS_EQ(FAbs(Pair(k)[2]), FromInt(m))
                    /\ (k <= m \/ k >= 3 * m) => DBL_LESS_EQ(Pair(k)[1], Zero)
                    /\ (k >= m /\ k <= 3 * m) => DBL_GRTR_EQ(Pair(k)[1], Zero)

\* C5: for p >= 1 calc_precision(p) is 10^-min(p, ceiling), a value in
\* (0, 1] that strictly decreases as p grows up to the ceiling and is
\* constant beyond it; the result is 0 exactly when p < 1.
C5_PrecisionMask ==
    /\ call.fn = "calc_precision" =>
         /\ call.precision >= 1 =>
              /\ call.ret = TenToMinus(IMin(call.precision, statics.maxPrec))
              /\ DBL_GRTR(call.ret, Zero) /\ DBL_LESS_EQ(call.ret, One)
         /\ (call.ret = Zero) <=> (call.precision < 1)
    /\ statics.maxPrec # 0 =>
         \A p \in 1..(statics.maxPrec + 2) :
            LET r  == calc_precision(p, statics).ret
                rn == calc_precision(p + 1, statics).ret
            IN  IF p < statics.maxPrec THEN DBL_LESS(rn, r) ELSE rn = r

\* calc_precision has returned for a precision above the ceiling.
C5_Witness ==
    /\ call.fn = "calc_precision"
    /\ call.precision > statics.maxPrec /\ statics.maxPrec > 1
    /\ call.ret = TenToMinus(statics.maxPrec)

\* C6: over any sequence of calls the two accuracy loops run at most once
\* and the cached ceiling never changes after its first computation.
C6_CeilingOnce ==
    [][/\ statics'.runs <= 1
       /\ statics.maxPrec # 0 =>
            /\ statics'.maxPrec = statics.maxPrec
            /\ statics'.runs = statics.runs]_vars

\* A call that needed the ceiling was made with the ceiling already cached.
C6_Witness ==
    /\ call.fn \in Comparators \cup {"calc_precision"}
    /\ call.precision > statics.maxPrec
    /\ call.before.maxPrec # 0 /\ statics.runs = 1

\* C7: dble_equal_to(x, x, p) is true for every finite x and every p >= 1,
\* also when x is so large that adding or subtracting the mask leaves it
\* unchanged.
C7_Reflexive ==
    (call.fn = "dble_equal_to" /\ call.x = call.y /\ call.precision >= 1)
    => call.ret = TRUE

\* C8 as stated: each of the six comparators returns false for every x and
\* y when precision < 1.
C8_AllFalse ==
    (call.fn \in Comparators /\ call.precision < 1) => call.ret = FALSE

\* C8, amended: when precision < 1, dble_greater_than, dble_less_than,
\* dble_equal_to, dble_greater_than_equal_to and dble_less_than_equal_to
\* return false for every x and y, and dble_not_equal returns true.
C8_InvalidPrecision ==
    (call.fn \in Comparators /\ call.precision < 1)
    => call.ret = (call.fn = "dble_not_equal")

\* dble_less_than was called with precision < 1 on x < y.
C8_Witness ==
    /\ call.fn = "dble_less_than" /\ call.precision < 1
    /\ DBL_LESS(call.x, call.y)

\* C9: dble_not_equal(x, y, p) is the negation of dble_equal_to(x, y, p)
\* for all x, y and p, valid or not.
C9_NotEqualNegates ==
    call.fn = "dble_not_equal"
    => call.ret = ~dble_equal_to(call.x, call.y, call.precision, call.before).ret

\* dble_not_equal has returned false for two values that differ.
C9_Witness ==
    /\ call.fn = "dble_not_equal" /\ call.ret = FALSE
    /\ call.x # call.y

\* val with the decimal places beyond the first digits removed
TruncatedTo(val, digits) ==
    IF val[2] >= 0 - digits THEN val
    ELSE LET k == 0 - val[2] - digits
         IN  IF k > NumDigits(IAbs(val[1])) THEN Zero
             ELSE Strip(ISgn(val[1]) * (IAbs(val[1]) \div Pow10(k)), 0 - digits)

\* C10: truncate_double(val, digits) with 1 <= digits <= 1074 is val with
\* the decimal places beyond the first digits removed, never rounded up;
\* digits = 0 gives val; digits < 0 or digits > 1074 gives 0.
C10_Truncates ==
    call.fn = "truncate_double"
    => IF call.digits = 0 THEN call.ret = call.val
       ELSE IF call.digits < 0 \/ call.digits > 1074 THEN call.ret = Zero
       ELSE call.ret = TruncatedTo(call.val, call.digits)

\* round_a_dble has returned for a value within [INT_MIN, INT_MAX].
RadInRange ==
    /\ call.fn = "round_a_dble"
    /\ ~DBL_GRTR(call.roundMe, DBL_INT_MAX) /\ ~DBL_LESS(call.roundMe, DBL_INT_MIN)

\* C11: for every in-range value v, round_a_dble(v, HM_IN) returns v rounded
\* toward zero (its integer part) and round_a_dble(v, HM_RND) returns the
\* nearest integer; stated for a platform that supports every direction.
C11_InAndNearest ==
    (RadInRange /\ fenvSupported = RoundingModes) =>
        /\ call.rndDir = HM_IN => call.ret = ToInt(call.roundMe)
        /\ call.rndDir = HM_RND =>
              DBL_LESS_EQ(FAbs(FSub(FromInt(call.ret), call.roundMe)), <<5, 0 - 1>>)

\* C12: for every in-range value v, round_a_dble(v, HM_UP) returns the
\* smallest integer >= v and round_a_dble(v, HM_DWN) the largest integer
\* <= v, and at no point of such a call does the rounding mode differ from
\* the mode on entry.
C12_UpDown ==
    /\ (rad.pc # "idle" /\ rad.rndDir \in {HM_UP, HM_DWN}) => rndMode = rad.entryMode
    /\ (RadInRange /\ call.rndDir = HM_UP) =>
          /\ DBL_GRTR_EQ(FromInt(call.ret), call.roundMe)
          /\ DBL_LESS(FromInt(call.ret - 1), call.roundMe)
    /\ (RadInRange /\ call.rndDir = HM_DWN) =>
          /\ DBL_LESS_EQ(FromInt(call.ret), call.roundMe)
          /\ DBL_GRTR(FromInt(call.ret + 1), call.roundMe)

\* round_a_dble(-2.7, HM_DWN) has returned -3.
C12_Witness ==
    /\ RadInRange /\ call.rndDir = HM_DWN
    /\ call.roundMe = <<0 - 27, 0 - 1>> /\ call.ret = 0 - 3

\* round_a_dble has returned for an in-range value after fesetround could
\* not establish the direction asked for.
RadSwitchFailed ==
    /\ RadInRange
    /\ call.rndDir \in {HM_RND, HM_IN} /\ call.rndDir \notin fenvSupported

\* C13 as stated: when the switch of the rounding mode does not take
\* effect, round_a_dble still rounds the value and returns the rounded
\* result.
C13_BestEffort == RadSwitchFailed => call.ret = ToInt(FRound(call.roundMe))

\* C13: when the switch of the rounding mode does not take effect,
\* round_a_dble skips the ROUND block and returns 0, with the rounding mode
\* as it was on entry.
C13_SwitchFailReturnsZero ==
    RadSwitchFailed => (call.ret = 0 /\ ~call.success /\ call.modeAfter = call.modeBefore)

\* round_a_dble(2.7, HM_IN) has returned on a platform without FE_TOWARDZERO.
C13_Witness == RadSwitchFailed /\ call.roundMe = <<27, 0 - 1>> /\ call.ret = 0

\* Both threads have returned from round_a_dble.
ThreadsDone == \A t \in Threads : thr.frame[t].pc = "done"

\* Every thread sees the rounding mode that was in force before either call,
\* and every call whose switch took effect ran its ROUND block under the
\* direction it asked for.
ThreadsUndisturbed ==
    /\ \A t \in Threads : ThrMode(t) = thr.mode0
    /\ \A t \in Threads :
          thr.frame[t].success => thr.roundedUnder[t] = thr.frame[t].rndDir

IsCenter == call.fn = "determine_center"

\* The dimension the claim halves: the dimension if odd, one more if even
\* and biased toward the high side, one less otherwise.
C15_Adjusted(dim, biased) ==
    IF dim % 2 = 1 THEN dim ELSE IF biased THEN dim + 1 ELSE dim - 1

\* C15: for width >= 3 and height >= 3 (and both outputs present)
\* determine_center yields x = (w' - 1)/2 + 1 and y = (h' - 1)/2 + 1, w'
\* biased by UpperRight and LowerRight, h' by LowerLeft and LowerRight, any
\* other orientation value acting as UpperLeft; (5,5,UpperLeft) = (3,3),
\* (4,4,UpperLeft) = (2,2), (4,4,LowerRight) = (3,3).
C15_Center ==
    (IsCenter /\ call.width >= 3 /\ call.height >= 3 /\ call.hasX /\ call.hasY) =>
        /\ call.ret
        /\ call.x = (C15_Adjusted(call.width,
                         call.orientWin \in {HM_UP_RIGHT, HM_LOW_RIGHT}) - 1) \div 2 + 1
        /\ call.y = (C15_Adjusted(call.height,
                         call.orientWin \in {HM_LOW_LEFT, HM_LOW_RIGHT}) - 1) \div 2 + 1
        /\ (call.width = 5 /\ call.height = 5 /\ call.orientWin = HM_UP_LEFT)
              => (call.x = 3 /\ call.y = 3)
        /\ (call.width = 4 /\ call.height = 4 /\ call.orientWin = HM_UP_LEFT)
              => (call.x = 2 /\ call.y = 2)
        /\ (call.width = 4 /\ call.height = 4 /\ call.orientWin = HM_LOW_RIGHT)
              => (call.x = 3 /\ call.y = 3)

\* determine_center(4, 4, .., HM_LOW_RIGHT) has returned (3, 3).
C15_Witness ==
    /\ IsCenter /\ call.ret
    /\ call.width = 4 /\ call.height = 4 /\ call.orientWin = HM_LOW_RIGHT
    /\ call.x = 3 /\ call.y = 3

\* C16: determine_center returns false and leaves the caller's x and y as
\* they were when width < 3 or height < 3, and a successful call yields
\* 1 <= x <= width and 1 <= y <= height.
C16_CenterBounds ==
    /\ (IsCenter /\ (call.width < 3 \/ call.height < 3)) =>
          (~call.ret /\ call.x = CoordBefore /\ call.y = CoordBefore)
    /\ (IsCenter /\ call.ret) =>
          /\ 1 <= call.x /\ call.x <= call.width
          /\ 1 <= call.y /\ call.y <= call.height

\* determine_center has refused a width of 2 with both outputs present.
C16_Witness ==
    /\ IsCenter /\ ~call.ret /\ call.width = 2 /\ call.height >= 3
    /\ call.hasX /\ call.hasY /\ call.x = CoordBefore

\* The int n is the double v rounded in direction dir: up, down, toward
\* zero, or to a nearest integer for HM_RND and for any other value.
IsRounded(n, v, dir) ==
    IF dir = HM_UP THEN DBL_GRTR_EQ(FromInt(n), v) /\ DBL_LESS(FromInt(n - 1), v)
    ELSE IF dir = HM_DWN THEN DBL_LESS_EQ(FromInt(n), v) /\ DBL_GRTR(FromInt(n + 1), v)
    ELSE IF dir = HM_IN THEN n = ToInt(v)
    ELSE DBL_LESS_EQ(FAbs(FSub(FromInt(n), v)), <<5, 0 - 1>>)

\* The structs p and q of the heap before the call have equal coordinates.
SameCoords(p, q) ==
    /\ call.before[p].xCoord = call.before[q].xCoord
    /\ call.before[p].yCoord = call.before[q].yCoord

\* determine_mid_point has returned.
IsMid == call.fn = "determine_mid_point"

\* The call of determine_mid_point was one the function has to refuse.
MidRefusable ==
    \/ call.point1_ptr = NULL \/ call.point2_ptr = NULL \/ call.midPoint_ptr = NULL
    \/ call.point1_ptr = call.point2_ptr
    \/ SameCoords(call.point1_ptr, call.point2_ptr)

\* C17: determine_mid_point returns false and leaves every struct, the
\* midpoint output included, as it was when one of the three pointers is
\* NULL, when point1 and point2 are the same struct, or when they hold the
\* same coordinates.
C17_MidPointRefuses ==
    (IsMid /\ MidRefusable) => (~call.ret /\ call.after = call.before)

\* determine_mid_point has refused two different structs with the same
\* coordinates.
C17_Witness ==
    /\ IsMid /\ ~call.ret
    /\ call.point1_ptr # NULL /\ call.point2_ptr # NULL /\ call.midPoint_ptr # NULL
    /\ call.point1_ptr # call.point2_ptr
    /\ SameCoords(call.point1_ptr, call.point2_ptr)

\* C18: for two distinct grid points (and an output struct that is neither
\* of them, on a platform that supports every direction) determine_mid_point
\* yields x = min(x1, x2) + half of |x2 - x1| and y likewise, the halves
\* rounded in the requested direction, and dist = distance(p1, p2) / 2; the
\* result is the same with point1 and point2 swapped and lies within the
\* bounding box of the two points.
C18_MidPoint ==
    (/\ IsMid /\ ~MidRefusable
     /\ call.midPoint_ptr \notin {call.point1_ptr, call.point2_ptr}
     /\ fenvSupported = RoundingModes)
    => LET p1 == call.before[call.point1_ptr]
           p2 == call.before[call.point2_ptr]
           m  == call.after[call.midPoint_ptr]
           half(d) == FMul(<<5, 0 - 1>>, FromInt(IAbs(d)))
       IN  /\ call.ret
           /\ IsRounded(m.xCoord - IMin(p1.xCoord, p2.xCoord),
                        half(p2.xCoord - p1.xCoord), call.rndDbl)
           /\ IsRounded(m.yCoord - IMin(p1.yCoord, p2.yCoord),
                        half(p2.yCoord - p1.yCoord), call.rndDbl)
           /\ m.dist = FDiv(calc_int_point_dist(p1.xCoord, p1.yCoord,
                                                p2.xCoord, p2.yCoord), FromInt(2))
           /\ determine_mid_point(call.point2_ptr, call.point1_ptr, call.midPoint_ptr,
                                  call.rndDbl, call.before, rndMode,
                                  fenvSupported).objs = call.after
           /\ IMin(p1.xCoord, p2.xCoord) <= m.xCoord
           /\ m.xCoord <= IMax(p1.xCoord, p2.xCoord)
           /\ IMin(p1.yCoord, p2.yCoord) <= m.yCoord
           /\ m.yCoord <= IMax(p1.yCoord, p2.yCoord)

\* determine_triangle_centroid has returned.
IsCentroid == call.fn = "determine_triangle_centroid"

\* The call of determine_triangle_centroid was one the function has to
\* refuse.
CentroidRefusable ==
    \/ call.point1_ptr = NULL \/ call.point2_ptr = NULL \/ call.point3_ptr = NULL
    \/ call.centerPoint_ptr = NULL
    \/ call.point1_ptr = call.point2_ptr \/ call.point1_ptr = call.point3_ptr
    \/ call.point2_ptr = call.point3_ptr
    \/ SameCoords(call.point1_ptr, call.point2_ptr)
    \/ SameCoords(call.point1_ptr, call.point3_ptr)
    \/ SameCoords(call.point2_ptr, call.point3_ptr)

\* C19: determine_triangle_centroid returns false and writes nothing when a
\* pointer is NULL or two of the three points are the same struct or hold
\* the same coordinates; otherwise (on a platform that supports every
\* direction) it returns true and writes x = (x1 + x2 + x3) / 3 and
\* y = (y1 + y2 + y3) / 3, each rounded in the requested direction.
C19_Centroid ==
    /\ (IsCentroid /\ CentroidRefusable) => (~call.ret /\ call.after = call.before)
    /\ (IsCentroid /\ ~CentroidRefusable /\ fenvSupported = RoundingModes) =>
          LET p1 == call.before[call.point1_ptr]
              p2 == call.before[call.point2_ptr]
              p3 == call.before[call.point3_ptr]
              c  == call.after[call.centerPoint_ptr]
          IN  /\ call.ret
              /\ IsRounded(c.xCoord,
                           FDiv(FromInt(p1.xCoord + p2.xCoord + p3.xCoord), FromInt(3)),
                           call.rndDbl)
              /\ IsRounded(c.yCoord,
                           FDiv(FromInt(p1.yCoord + p2.yCoord + p3.yCoord), FromInt(3)),
                           call.rndDbl)

\* solve_point_slope_y has returned.
IsSolveY == call.fn = "solve_point_slope_y"

\* C20: solve_point_slope_y(knownX1, knownY1, targetX0, slope, dir) returns
\* slope * (targetX0 - knownX1) + knownY1 rounded in direction dir, and
\* knownY1 when the slope is 0; stated for a platform that supports every
\* direction.
C20_SolveY ==
    (IsSolveY /\ fenvSupported = RoundingModes) =>
        /\ IsRounded(call.ret,
                     FAdd(FMul(call.slope, FromInt(call.knownX0 - call.knownX1)),
                          FromInt(call.knownY1)),
                     call.rndDbl)
        /\ call.slope = Zero => call.ret = call.knownY1

\* solve_point_slope_x has returned.
IsSolveX == call.fn = "solve_point_slope_x"

\* C21: solve_point_slope_x(knownX1, knownY1, targetY0, slope, dir) returns
\* 0 when the slope equals 0 within the tolerance, and otherwise
\* (targetY0 - knownY1) / slope + knownX1 rounded in direction dir; stated
\* for a valid direction on a platform that supports every direction.
C21_SolveX ==
    (IsSolveX /\ fenvSupported = RoundingModes /\ call.rndDbl \in RoundingModes) =>
        IF dble_equal_to(call.slope, Zero, DBL_PRECISION, call.before).ret
        THEN call.ret = 0
        ELSE IsRounded(call.ret,
                       FAdd(FDiv(FromInt(call.knownY0 - call.knownY1), call.slope),
                            FromInt(call.knownX1)),
                       call.rndDbl)

\* calculate_triangle_area has returned.
IsArea == call.fn = "calculate_triangle_area"

\* Twice the signed area of the triangle P, Q, R of grid points.
Cross(P, Q, R) == (Q[1] - P[1]) * (R[2] - P[2]) - (Q[2] - P[2]) * (R[1] - P[1])

\* Two of the vertices coincide, or all three share an x or a y value.
AreaRefused(A, B, C) ==
    \/ A = B \/ A = C \/ B = C
    \/ (A[1] = B[1] /\ A[1] = C[1])
    \/ (A[2] = B[2] /\ A[2] = C[2])

\* C22: calculate_triangle_area returns -1 exactly when two vertices
\* coincide or all three share one x or one y value; for every other input
\* it returns a non-negative area, 6.0 for (0,0), (4,0), (0,3), and 0 for
\* three distinct points on a diagonal line.
C22_Area ==
    IsArea =>
        IF AreaRefused(call.A, call.B, call.C) THEN call.ret = FromInt(0 - 1)
        ELSE /\ DBL_GRTR_EQ(call.ret, Zero)
             /\ (call.A = <<0, 0>> /\ call.B = <<4, 0>> /\ call.C = <<0, 3>>)
                    => call.ret = FromInt(6)
             /\ Cross(call.A, call.B, call.C) = 0 => call.ret = Zero

\* verify_triangle has returned.
IsVerify == call.fn = "verify_triangle"

\* The point P lies strictly inside (1), strictly outside (-1) or on the
\* boundary (0) of the non-degenerate triangle A, B, C.
Side(A, B, C, P) ==
    LET d1 == ISgn(Cross(A, B, P))
        d2 == ISgn(Cross(B, C, P))
        d3 == ISgn(Cross(C, A, P))
    IN  IF d1 = 0 \/ d2 = 0 \/ d3 = 0
        THEN IF (d1 >= 0 /\ d2 >= 0 /\ d3 >= 0) \/ (d1 <= 0 /\ d2 <= 0 /\ d3 <= 0)
             THEN 0 ELSE 0 - 1
        ELSE IF d1 = d2 /\ d2 = d3 THEN 1 ELSE 0 - 1

\* C23: verify_triangle returns false when one of the four areas is the
\* sentinel -1; for a non-degenerate triangle it returns true for every grid
\* point strictly inside and false for every grid point strictly outside;
\* stated for a valid precision.
C23_VerifyTriangle ==
    (IsVerify /\ call.maxPrec >= 1) =>
        /\ (\E i \in 1..4 : call.area[i] = FromInt(0 - 1)) => ~call.ret
        /\ Cross(call.A, call.B, call.C) # 0 =>
              /\ Side(call.A, call.B, call.C, call.P) = 1 => call.ret
              /\ Side(call.A, call.B, call.C, call.P) = 0 - 1 => ~call.ret

\* verify_slope has returned.
IsVerifySlope == call.fn = "verify_slope"

\* C24: for two distinct points on a horizontal line and an expected slope
\* of 0, verify_slope returns true.
C24_HorizontalSlope ==
    (/\ IsVerifySlope
     /\ call.xCoord1 # call.xCoord2 /\ call.yCoord1 = call.yCoord2
     /\ call.slope = Zero) => call.ret

\* build_geometric_list has returned.
IsList == call.fn = "build_geometric_list"

IsXMajorWalk ==
    IsPlot /\ ~call.res.retNull /\ call.frame.chooseX /\ IsWhole(call.aVal)

C27_InDomain ==
    IsPlot =>
        \A k \in DOMAIN call.frame.coords :
            DBL_LESS_EQ(FAbs(call.frame.coords[k]),
                        IF call.frame.chooseX THEN call.frame.aAbs ELSE call.frame.bAbs)

\* calc_ellipse_x_coord or calc_ellipse_y_coord has returned.
IsEllipseHelper == call.fn \in {"calc_ellipse_x_coord", "calc_ellipse_y_coord"}

\* C28: calc_ellipse_x_coord and calc_ellipse_y_coord return 0 whenever
\* a = 0, b = 0 or the coordinate exceeds the corresponding semi-axis in
\* either direction, and a non-negative value otherwise.
C28_HelperDomain ==
    IsEllipseHelper =>
        IF \/ call.aVal = Zero \/ call.bVal = Zero
           \/ DBL_GRTR(call.coord, call.semiAxis)
           \/ DBL_LESS(call.coord, FNeg(call.semiAxis))
        THEN call.ret = Zero
        ELSE DBL_GRTR_EQ(call.ret, Zero)

\* C29: in every run of the sampling loop of plot_ellipse_points over an
\* allocated buffer, x-major or y-major, each index written lies in
\* [0, numPoints) and is written exactly once.
C29_StoresOnce ==
    (IsPlot /\ call.frame.haveBuf) =>
        LET stores == call.frame.stores
        IN  /\ \A k \in DOMAIN stores : stores[k] >= 0 /\ stores[k] < call.frame.numPoints
            /\ \A j, k \in DOMAIN stores : j # k => stores[j] # stores[k]

\* C30: for all x, y and every precision p >= 1, at most one of
\* dble_greater_than, dble_equal_to and dble_less_than is true of (x, y, p);
\* checked where dble_equal_to was called, the other two being called next.
C30_AtMostOne ==
    (call.fn = "dble_equal_to" /\ call.precision >= 1) =>
        LET lt == dble_less_than(call.x, call.y, call.precision, statics)
            gt == dble_greater_than(call.x, call.y, call.precision, lt.st)
        IN  /\ ~(call.ret /\ lt.ret)
            /\ ~(call.ret /\ gt.ret)
            /\ ~(lt.ret /\ gt.ret)

=============================================================================
